---- MODULE Spec2Model ----
(***************************************************************************)
(* Discussion orchestration and consensus subsystem of mastermind.         *)
(*                                                                         *)
(*   Spec       multi-phase poll engine (api/routes/config.py): the three  *)
(*              request handlers, split at their await points, over the    *)
(*              persisted Poll / PollOption / PollVote rows                *)
(*   SpecSeq    the same handlers, each returning before the next starts   *)
(*   SpecDedup  _deduplicate_options / _text_similarity on option lists    *)
(*   SpecIRV    the instant-runoff loop of _process_round_2_votes          *)
(*   SpecRR     TurnManager (core/turn_manager.py), round-robin selection  *)
(*   SpecOrch   Orchestrator (core/orchestrator.py): its entry points,     *)
(*              generations, controls and request_vote, interleaved        *)
(*   SpecGen    provider-driven generation, one call at a time             *)
(*   SpecParse        _parse_vote_response on reply texts                  *)
(*   SpecAnalysis     analyze_votes in every consensus mode                *)
(*   SpecTrend        analyses in a row and get_agreement_trend            *)
(*   SpecCtx          ContextManager.add_message and its truncation        *)
(*   SpecSummary      create_summary and get_context_for_prompt            *)
(*   SpecWarning      get_budget_warning over the usage levels             *)
(*   SpecAwait        create_summary split at its await, reset             *)
(*   SpecModes        TurnManager in every turn mode                       *)
(*   SpecModerator    moderator mode, one speaker at a time                *)
(*   SpecFreeForm     free-form mode with the turns taken                  *)
(*   SpecQueue        the interrupt queue and the priorities               *)
(*   SpecSessionPolls the Poll rows of one poll-mode session               *)
(***************************************************************************)
EXTENDS Integers, Sequences, FiniteSets, TLC

(* ------------------------------ bounds --------------------------------- *)
MaxOptions == 2      \* PollOption rows of the poll
MaxRequests == 4     \* requests the poll accepts in one behaviour
MaxHandlers == 2     \* request handlers in flight at once
MaxProposed == 1     \* proposed_options per synthesis request

VARIABLES
    session_personas,   \* SessionPersona rows of the session: persona_name -> is_active
    poll_phase,         \* Poll.phase as committed in the store
    poll_options,       \* PollOption rows in id order; the id is the index
    poll_votes,         \* PollVote rows in id order
    handlers,           \* in-flight requests: slot -> [kind, persona_name, vote_round, pc]
    requests            \* number of requests accepted so far

pollVars == <<session_personas, poll_phase, poll_options, poll_votes, handlers, requests>>

(* ------------------------------ helpers -------------------------------- *)
Range(s) == {s[i] : i \in DOMAIN s}

Front(s) == SubSeq(s, 1, Len(s) - 1)

Last(s) == s[Len(s)]

RECURSIVE SetToSeq(_)
SetToSeq(S) ==
    IF S = {} THEN <<>>
    ELSE LET x == CHOOSE y \in S : TRUE IN <<x>> \o SetToSeq(S \ {x})

\* list[:n]
Take(list, n) == SubSeq(list, 1, IF n < Len(list) THEN n ELSE Len(list))

\* list[n:]
Drop(list, n) == SubSeq(list, (IF n < Len(list) THEN n ELSE Len(list)) + 1, Len(list))

RECURSIVE SumSeq(_)
SumSeq(s) == IF s = <<>> THEN 0 ELSE Head(s) + SumSeq(Tail(s))

\* keys of a Python dict filled in the order of s: distinct elements, first-seen order
RECURSIVE FirstSeen(_)
FirstSeen(s) ==
    IF s = <<>> THEN <<>>
    ELSE LET r == FirstSeen(Front(s))
         IN  IF Last(s) \in Range(r) THEN r ELSE Append(r, Last(s))

RECURSIVE InsertByKey(_, _, _)
InsertByKey(x, s, key) ==
    IF s = <<>> THEN <<x>>
    ELSE IF key[Head(s)] <= key[x]
         THEN <<Head(s)>> \o InsertByKey(x, Tail(s), key)
         ELSE <<x>> \o s

\* list.sort(key=...) / sorted(key=...): ascending and stable
RECURSIVE SortedBy(_, _)
SortedBy(s, key) ==
    IF s = <<>> THEN <<>>
    ELSE InsertByKey(Last(s), SortedBy(Front(s), key), key)

(* --------------------------- option texts ------------------------------ *)
\* A text is a sequence of one-character strings; " " is whitespace.
Lower(c) ==
    CASE c = "A" -> "a"
      [] c = "B" -> "b"
      [] OTHER -> c

LowerText(t) == [i \in DOMAIN t |-> Lower(t[i])]

RECURSIVE StripLeft(_)
StripLeft(t) ==
    IF t = <<>> THEN t
    ELSE IF Head(t) = " " THEN StripLeft(Tail(t)) ELSE t

RECURSIVE StripRight(_)
StripRight(t) ==
    IF t = <<>> THEN t
    ELSE IF Last(t) = " " THEN StripRight(Front(t)) ELSE t

Strip(t) == StripRight(StripLeft(t))

\* set(t.split()): the maximal runs of non-whitespace characters
RECURSIVE SplitWords(_, _)
SplitWords(t, cur) ==
    IF t = <<>> THEN (IF cur = <<>> THEN {} ELSE {cur})
    ELSE IF Head(t) = " "
         THEN (IF cur = <<>> THEN {} ELSE {cur}) \cup SplitWords(Tail(t), <<>>)
         ELSE SplitWords(Tail(t), Append(cur, Head(t)))

Words(t) == SplitWords(t, <<>>)

\* _text_similarity: the quotient intersection / union as [num, den]; 0.0 is 0/1
TextSimilarity(a, b) ==
    LET words_a == Words(a)
        words_b == Words(b)
    IN  IF words_a = {} \/ words_b = {}
        THEN [num |-> 0, den |-> 1]
        ELSE [num |-> Cardinality(words_a \cap words_b),
              den |-> Cardinality(words_a \cup words_b)]

\* mutant: the threshold test taken as >= 0.8
IsSimilarGeq(a, b) ==
    LET s == TextSimilarity(a, b) IN 5 * s.num >= 4 * s.den

\* _text_similarity(normalized, seen_text) > 0.8, with 0.8 = 4/5
IsSimilar(a, b) ==
    LET s == TextSimilarity(a, b) IN 5 * s.num > 4 * s.den

Normalized(t) == Strip(LowerText(t))

\* _deduplicate_options over the option_text of each option: the indexes kept,
\* in order (seen holds the normalized text of every kept option)
RECURSIVE DedupKept(_, _, _, _)
DedupKept(texts, i, seen, unique) ==
    IF i > Len(texts) THEN unique
    ELSE LET normalized == Normalized(texts[i])
             is_duplicate == \E seen_text \in seen : IsSimilar(normalized, seen_text)
         IN  IF is_duplicate
             THEN DedupKept(texts, i + 1, seen, unique)
             ELSE DedupKept(texts, i + 1, seen \cup {normalized}, Append(unique, i))

DeduplicateOptions(texts) == DedupKept(texts, 1, {}, <<>>)

(* ------------------------- poll: stored rows --------------------------- *)
Submitters == {"p1", "p2"}    \* persona_name of a request
\* the SessionPersona rows a session can have: p2 may have no row in the session
Sessions == {{"p1"}, {"p1", "p2"}}

SYNTHESIS == "synthesis"
VOTE_ROUND_1 == "vote_round_1"
VOTE_ROUND_2 == "vote_round_2"
COMPLETED == "completed"
PollPhase == {SYNTHESIS, VOTE_ROUND_1, VOTE_ROUND_2, COMPLETED}

NoScore == -1                 \* PollOption.round_1_score is NULL
NoRank == 0                   \* PollVote.rank is NULL
DefaultRank == 999
TopN == 5

\* option texts a synthesis request proposes
PollTexts == {<<" ", "A">>, <<"b">>}

NewOption(option_text, persona_name) ==
    [option_text |-> option_text, proposed_by |-> persona_name,
     is_active |-> TRUE, round_1_score |-> NoScore]

NewVote(option_id, persona_name, vote_round, rank, vote_value) ==
    [option_id |-> option_id, persona_name |-> persona_name,
     vote_round |-> vote_round, rank |-> rank, vote_value |-> vote_value]

OptionIds == DOMAIN poll_options

VotesOfRound(votes, r) == SelectSeq(votes, LAMBDA v : v.vote_round = r)

\* {sp.persona_name for sp in personas_result}: every row, whatever its is_active
AllPersonas == DOMAIN session_personas

ActivePersonas == {p \in DOMAIN session_personas : session_personas[p]}

\* {opt.proposed_by for opt in all_options}
SubmittedPersonas(options) == {options[i].proposed_by : i \in DOMAIN options}

\* {v.persona_name for v in all_votes}
VotedPersonas(votes, r) == {v.persona_name : v \in Range(VotesOfRound(votes, r))}

(* --------------------- _process_round_1_votes -------------------------- *)
\* v.rank or 999
RankOrDefault(rank) == IF rank = NoRank THEN DefaultRank ELSE rank

\* persona_ballots[persona] after its sort by rank
BallotOf(votes, persona) ==
    LET mine == SelectSeq(votes, LAMBDA v : v.persona_name = persona)
        items == [i \in DOMAIN mine |->
                    [option_id |-> mine[i].option_id, rank |-> RankOrDefault(mine[i].rank)]]
    IN  SortedBy(items, [it \in Range(items) |-> it.rank])

RECURSIVE ConcatBallots(_, _)
ConcatBallots(votes, personas) ==
    IF personas = <<>> THEN <<>>
    ELSE BallotOf(votes, Head(personas)) \o ConcatBallots(votes, Tail(personas))

\* every ballot item in the order the scoring loop visits them
BallotItems(votes) ==
    ConcatBallots(votes, FirstSeen([i \in DOMAIN votes |-> votes[i].persona_name]))

\* mutant: the top choice gets N - 1 points
BordaPointsOffByOne(total_options, rank) ==
    IF total_options - rank > 0 THEN total_options - rank ELSE 0

\* max(0, total_options - rank + 1)
BordaPoints(total_options, rank) ==
    IF total_options - rank + 1 > 0 THEN total_options - rank + 1 ELSE 0

\* option_scores: [ids |-> its keys in insertion order, score |-> its values]
OptionScores(votes, total_options) ==
    LET items == BallotItems(votes)
        ids == FirstSeen([i \in DOMAIN items |-> items[i].option_id])
    IN  [ids |-> ids,
         score |-> [o \in Range(ids) |->
             LET its == SelectSeq(items, LAMBDA it : it.option_id = o)
             IN  SumSeq([i \in DOMAIN its |-> BordaPoints(total_options, its[i].rank)])]]

\* top_5_ids: sorted by score, highest first, stable; the first five
Top5Ids(option_scores) ==
    LET sorted_options == SortedBy(option_scores.ids,
                                   [o \in Range(option_scores.ids) |-> 0 - option_scores.score[o]])
    IN  {sorted_options[i] : i \in 1..(IF Len(sorted_options) < TopN
                                       THEN Len(sorted_options) ELSE TopN)}

\* the PollOption rows after _process_round_1_votes has committed
ProcessRound1Votes(votes, options) ==
    LET option_scores == OptionScores(VotesOfRound(votes, 1), Len(options))
        top_5_ids == Top5Ids(option_scores)
    IN  [opt_id \in DOMAIN options |->
            [options[opt_id] EXCEPT
                !.is_active = opt_id \in top_5_ids,
                !.round_1_score = IF opt_id \in Range(option_scores.ids)
                                  THEN option_scores.score[opt_id] ELSE @]]

(* ---------------------- poll: request handlers ------------------------- *)
Idle == [kind |-> "idle", persona_name |-> "", vote_round |-> 0, pc |-> "idle"]

Slots == 1..MaxHandlers

\* a new request takes the lowest free slot
FreeSlot(h) ==
    /\ handlers[h].pc = "idle"
    /\ \A g \in Slots : g < h => handlers[g].pc # "idle"

\* sequences of distinct elements of S, of every length
RECURSIVE Arrangements(_)
Arrangements(S) ==
    {<<>>} \cup UNION {{<<x>> \o a : a \in Arrangements(S \ {x})} : x \in S}

\* the options the pending-poll listing offers for ranking in vote round 1
OptionsForRanking == OptionIds

\* rankings of a round-1 request: the options the persona ranks, best first
Round1Rankings == Arrangements(OptionsForRanking)

VoteValues == {"agree", "disagree", "abstain"}

\* rankings of a round-2 request: a vote on some of the options
Round2Rankings ==
    UNION {[S -> VoteValues] : S \in SUBSET OptionIds}

ProposedOptions ==
    UNION {[1..n -> PollTexts] : n \in 0..MaxProposed}

PollInit ==
    /\ session_personas \in UNION {[S -> BOOLEAN] : S \in Sessions}
    /\ requests = 0
    /\ poll_phase = SYNTHESIS
    /\ poll_options = <<>>
    /\ poll_votes = <<>>
    /\ handlers = [h \in Slots |-> Idle]

\* submit_poll_synthesis up to its first commit: the poll is loaded and its phase tested
StartSynthesis(h, persona_name) ==
    /\ FreeSlot(h)
    /\ IF poll_phase # SYNTHESIS
       THEN UNCHANGED <<handlers, requests>>
       ELSE /\ requests < MaxRequests
            /\ requests' = requests + 1
            /\ handlers' = [handlers EXCEPT ![h] =
                    [kind |-> "synthesis", persona_name |-> persona_name,
                     vote_round |-> 0, pc |-> "commit"]]
    /\ UNCHANGED <<session_personas, poll_phase, poll_options, poll_votes>>

\* submit_poll_vote up to its first commit
StartVote(h, persona_name, vote_round) ==
    /\ FreeSlot(h)
    /\ LET expected_phase == IF vote_round = 1 THEN VOTE_ROUND_1 ELSE VOTE_ROUND_2
       IN  IF poll_phase # expected_phase
           THEN UNCHANGED <<handlers, requests>>
           ELSE /\ requests < MaxRequests
                /\ requests' = requests + 1
                /\ handlers' = [handlers EXCEPT ![h] =
                        [kind |-> "vote", persona_name |-> persona_name,
                         vote_round |-> vote_round, pc |-> "commit"]]
    /\ UNCHANGED <<session_personas, poll_phase, poll_options, poll_votes>>

\* submit_mcp_response up to its first commit: the branch follows the phase loaded
StartMcpResponse(h, persona_name) ==
    /\ FreeSlot(h)
    /\ requests < MaxRequests
    /\ requests' = IF poll_phase = COMPLETED THEN requests ELSE requests + 1
    /\ handlers' = [handlers EXCEPT ![h] =
            CASE poll_phase = SYNTHESIS ->
                    [kind |-> "synthesis", persona_name |-> persona_name,
                     vote_round |-> 0, pc |-> "commit"]
              [] poll_phase = VOTE_ROUND_1 ->
                    [kind |-> "vote", persona_name |-> persona_name,
                     vote_round |-> 1, pc |-> "commit"]
              [] poll_phase = VOTE_ROUND_2 ->
                    [kind |-> "vote", persona_name |-> persona_name,
                     vote_round |-> 2, pc |-> "commit"]
              [] OTHER -> Idle]
    /\ UNCHANGED <<session_personas, poll_phase, poll_options, poll_votes>>

\* the commit that stores the proposed options
CommitOptions(h, proposed_options) ==
    /\ handlers[h].kind = "synthesis" /\ handlers[h].pc = "commit"
    /\ Len(poll_options) + Len(proposed_options) <= MaxOptions
    /\ poll_options' = poll_options \o
            [i \in DOMAIN proposed_options |->
                NewOption(Strip(proposed_options[i]), handlers[h].persona_name)]
    /\ handlers' = [handlers EXCEPT ![h].pc = "check"]
    /\ UNCHANGED <<requests, session_personas, poll_phase, poll_votes>>

\* the reads after the commit: all_submitted = submitted_personas >= all_personas
CheckAllSubmitted(h) ==
    /\ handlers[h].kind = "synthesis" /\ handlers[h].pc = "check"
    /\ handlers' = [handlers EXCEPT ![h] =
            IF AllPersonas \subseteq SubmittedPersonas(poll_options)
            THEN [@ EXCEPT !.pc = "advance"] ELSE Idle]
    /\ UNCHANGED <<requests, session_personas, poll_phase, poll_options, poll_votes>>

\* poll.phase = VOTE_ROUND_1 and its commit, on the poll object loaded at the start
AdvanceToRound1(h) ==
    /\ handlers[h].kind = "synthesis" /\ handlers[h].pc = "advance"
    /\ poll_phase' = VOTE_ROUND_1
    /\ handlers' = [handlers EXCEPT ![h] = Idle]
    /\ UNCHANGED <<requests, session_personas, poll_options, poll_votes>>

\* the commit that stores the votes of the request
CommitVotes(h, rankings) ==
    /\ handlers[h].kind = "vote" /\ handlers[h].pc = "commit"
    /\ poll_votes' = poll_votes \o rankings
    /\ handlers' = [handlers EXCEPT ![h].pc = "check"]
    /\ UNCHANGED <<requests, session_personas, poll_phase, poll_options>>

CommitRound1Votes(h) ==
    /\ handlers[h].vote_round = 1
    /\ \E r \in Round1Rankings :
         CommitVotes(h, [i \in DOMAIN r |->
             NewVote(r[i], handlers[h].persona_name, 1, i, "none")])

CommitRound2Votes(h) ==
    /\ handlers[h].vote_round = 2
    /\ \E f \in Round2Rankings :
         LET ids == SortedBy(SetToSeq(DOMAIN f), [o \in DOMAIN f |-> o])
         IN  CommitVotes(h, [i \in DOMAIN ids |->
                NewVote(ids[i], handlers[h].persona_name, 2, NoRank, f[ids[i]])])

\* the reads after the commit: all_voted = voted_personas >= all_personas
CheckAllVoted(h) ==
    /\ handlers[h].kind = "vote" /\ handlers[h].pc = "check"
    /\ handlers' = [handlers EXCEPT ![h] =
            IF AllPersonas \subseteq VotedPersonas(poll_votes, handlers[h].vote_round)
            THEN [@ EXCEPT !.pc = IF handlers[h].vote_round = 1 THEN "process" ELSE "advance"]
            ELSE Idle]
    /\ UNCHANGED <<requests, session_personas, poll_phase, poll_options, poll_votes>>

\* _process_round_1_votes and its commit
ProcessRound1(h) ==
    /\ handlers[h].kind = "vote" /\ handlers[h].pc = "process"
    /\ poll_options' = ProcessRound1Votes(poll_votes, poll_options)
    /\ handlers' = [handlers EXCEPT ![h].pc = "advance"]
    /\ UNCHANGED <<requests, session_personas, poll_phase, poll_votes>>

\* poll.phase = VOTE_ROUND_2 / COMPLETED and its commit, on the poll object loaded at the start
AdvanceAfterVote(h) ==
    /\ handlers[h].kind = "vote" /\ handlers[h].pc = "advance"
    /\ poll_phase' = IF handlers[h].vote_round = 1 THEN VOTE_ROUND_2 ELSE COMPLETED
    /\ handlers' = [handlers EXCEPT ![h] = Idle]
    /\ UNCHANGED <<requests, session_personas, poll_options, poll_votes>>

\* the steps of the request in slot h
PollStep(h) ==
    \/ \E p \in Submitters : StartSynthesis(h, p)
    \/ \E p \in Submitters : \E r \in {1, 2} : StartVote(h, p, r)
    \/ \E p \in Submitters : StartMcpResponse(h, p)
    \/ \E o \in ProposedOptions : CommitOptions(h, o)
    \/ CheckAllSubmitted(h)
    \/ AdvanceToRound1(h)
    \/ CommitRound1Votes(h)
    \/ CommitRound2Votes(h)
    \/ CheckAllVoted(h)
    \/ ProcessRound1(h)
    \/ AdvanceAfterVote(h)

\* requests overlap at their await points
PollNext == \E h \in Slots : PollStep(h)

\* every request returns before the next one arrives
PollNextSequential == PollStep(1)

(* ============================ deduplication ============================= *)
MaxDedupOptions == 3          \* options handed to _deduplicate_options

VARIABLES
    dd_options,         \* option_text of the options, in the order stored
    dd_unique,          \* indexes of the options _deduplicate_options returned
    dd_done             \* _deduplicate_options has run

dedupVars == <<dd_options, dd_unique, dd_done>>

\* "a b c d e", "a b c d e f", "a b c d", " A b c d e ", "", "a b c d f", "ab  c"
DedupTexts ==
    { <<"a", " ", "b", " ", "c", " ", "d", " ", "e">>,
      <<"a", " ", "b", " ", "c", " ", "d", " ", "e", " ", "f">>,
      <<"a", " ", "b", " ", "c", " ", "d">>,
      <<" ", "A", " ", "b", " ", "c", " ", "d", " ", "e", " ">>,
      <<>>,
      <<"a", " ", "b", " ", "c", " ", "d", " ", "f">>,
      <<"a", "b", " ", " ", "c">> }

DedupInit ==
    /\ dd_options = <<>>
    /\ dd_unique = <<>>
    /\ dd_done = FALSE

\* one more option stored by a synthesis request (option_text.strip())
DedupPropose(option_text) ==
    /\ ~dd_done
    /\ Len(dd_options) < MaxDedupOptions
    /\ dd_options' = Append(dd_options, Strip(option_text))
    /\ UNCHANGED <<dd_unique, dd_done>>

\* unique_options = _deduplicate_options(all_options)
DedupRun ==
    /\ ~dd_done
    /\ dd_unique' = DeduplicateOptions(dd_options)
    /\ dd_done' = TRUE
    /\ UNCHANGED dd_options

DedupNext ==
    \/ \E t \in DedupTexts : DedupPropose(t)
    \/ DedupRun

(* ============================ instant runoff ============================ *)
MaxFinalists == 3             \* active options entering the instant-runoff replay
MaxBallots == 3               \* personas with round-1 votes on a finalist

VARIABLES
    irv_text,           \* finalist id -> position of its option_text in alphabetical order
    irv_ballots,        \* persona_ballots, in the order of the dict: lists of option ids
    irv_eliminated,     \* eliminated
    irv_winner,         \* winner; NoWinner is None
    irv_rounds,         \* the options eliminated so far, in order
    irv_pc              \* "loop" while the while loop runs, then "done"

irvVars == <<irv_text, irv_ballots, irv_eliminated, irv_winner, irv_rounds, irv_pc>>

NoWinner == 0

Top5 == DOMAIN irv_text       \* top_5_ids

\* the round-1 votes of one persona on the finalists: option id -> rank
RankMaps(n) ==
    UNION {{f \in [S -> 1..Cardinality(S)] : \A a, b \in S : a # b => f[a] # f[b]} :
              S \in (SUBSET (1..n)) \ {{}}}

\* persona_ballots[persona]: the rows in id order, sorted by rank, option ids extracted
PersonaBallot(f) ==
    LET rows == SortedBy(SetToSeq(DOMAIN f), [o \in DOMAIN f |-> o])
    IN  SortedBy(rows, f)

\* the first option of the ballot that is not eliminated, 0 when there is none
RECURSIVE FirstChoice(_, _)
FirstChoice(ballot, eliminated) ==
    IF ballot = <<>> THEN 0
    ELSE IF Head(ballot) \notin eliminated THEN Head(ballot)
         ELSE FirstChoice(Tail(ballot), eliminated)

\* first_choice_counts: [ids |-> its keys in insertion order, count |-> its values]
FirstChoiceCounts(ballots, eliminated) ==
    LET choices == SelectSeq([i \in DOMAIN ballots |-> FirstChoice(ballots[i], eliminated)],
                             LAMBDA c : c # 0)
        ids == FirstSeen(choices)
    IN  [ids |-> ids,
         count |-> [o \in Range(ids) |-> Len(SelectSeq(choices, LAMBDA c : c = o))]]

\* min(values)
MinOf(S) == CHOOSE m \in S : \A x \in S : m <= x

\* min(lowest, key=...): the first element of the list with the smallest key
MinByKey(lowest, key) ==
    LET m == MinOf({key[lowest[i]] : i \in DOMAIN lowest})
        first == MinOf({i \in DOMAIN lowest : key[lowest[i]] = m})
    IN  lowest[first]

\* while not winner and len(eliminated) < len(top_5_ids) - 1
IrvLoopCondition ==
    irv_winner = NoWinner /\ Cardinality(irv_eliminated) < Cardinality(Top5) - 1

IrvInit ==
    /\ \E n \in 1..MaxFinalists : irv_text \in [1..n -> 1..n]
    /\ \E k \in 0..MaxBallots :
         \E maps \in [1..k -> RankMaps(Cardinality(DOMAIN irv_text))] :
            irv_ballots = [i \in 1..k |-> PersonaBallot(maps[i])]
    /\ irv_eliminated = {}
    /\ irv_winner = NoWinner
    /\ irv_rounds = <<>>
    /\ irv_pc = "loop"

\* one pass through the body of the while loop
IrvIterate ==
    /\ irv_pc = "loop"
    /\ IrvLoopCondition
    /\ LET first_choice_counts == FirstChoiceCounts(irv_ballots, irv_eliminated)
           ids == first_choice_counts.ids
           count == first_choice_counts.count
           total_votes == SumSeq([i \in DOMAIN ids |-> count[ids[i]]])
           majority == SelectSeq(ids, LAMBDA o : 2 * count[o] > total_votes)
       IN  IF ids = <<>>
           THEN /\ irv_pc' = "done"
                /\ UNCHANGED <<irv_eliminated, irv_winner, irv_rounds>>
           ELSE IF majority # <<>>
           THEN /\ irv_winner' = Head(majority)
                /\ irv_pc' = "done"
                /\ UNCHANGED <<irv_eliminated, irv_rounds>>
           ELSE LET min_votes == MinOf({count[o] : o \in Range(ids)})
                    lowest == SelectSeq(ids, LAMBDA o : count[o] = min_votes)
                    to_eliminate == MinByKey(lowest, irv_text)
                    remaining == Range(ids) \ (irv_eliminated \cup {to_eliminate})
                IN  /\ irv_eliminated' = irv_eliminated \cup {to_eliminate}
                    /\ irv_rounds' = Append(irv_rounds, to_eliminate)
                    /\ irv_winner' = IF Cardinality(remaining) = 1
                                     THEN CHOOSE o \in remaining : TRUE
                                     ELSE irv_winner
                    /\ irv_pc' = "loop"
    /\ UNCHANGED <<irv_text, irv_ballots>>

\* the loop condition fails: ranked_choice is built from winner
IrvExit ==
    /\ irv_pc = "loop"
    /\ ~IrvLoopCondition
    /\ irv_pc' = "done"
    /\ UNCHANGED <<irv_text, irv_ballots, irv_eliminated, irv_winner, irv_rounds>>

IrvNext == IrvIterate \/ IrvExit

IrvIdle ==
    /\ irv_text = <<1>>
    /\ irv_ballots = <<>>
    /\ irv_eliminated = {}
    /\ irv_winner = NoWinner
    /\ irv_rounds = <<>>
    /\ irv_pc = "done"

(* ============================= turn manager ============================= *)
MaxSpeakers == 3              \* personas handed to TurnManager
MaxTurnCount == 3             \* turn_count stops growing here

VARIABLES
    tm_speaker_queue,   \* speaker_queue: the personas in the order given
    tm_is_active,       \* speakers[name].is_active
    tm_current_index,   \* current_index
    tm_turn_count,      \* turn_count
    tm_turns_taken,     \* speakers[name].turns_taken
    tm_last_spoke_at_turn,  \* speakers[name].last_spoke_at_turn
    tm_selected         \* speakers returned by the latest consecutive
                        \* get_next_speakers(max_speakers=1) calls

tmVars == <<tm_speaker_queue, tm_is_active, tm_current_index, tm_turn_count,
           tm_turns_taken, tm_last_spoke_at_turn, tm_selected>>

SpeakerNames == <<"einstein", "feynman", "curie", "darwin", "euler">>

TmSpeakers == Range(tm_speaker_queue)

ActiveSpeakers == {name \in TmSpeakers : tm_is_active[name]}

\* mutant: the cursor moves two places
AdvanceIndexTwice(current_index) == current_index + 2

\* self.current_index += 1
AdvanceIndex(current_index) == current_index + 1

\* the loop of _get_round_robin_speakers, k passes left:
\* [speakers, current_index, turn_count] when it ends
RECURSIVE RoundRobinLoop(_, _, _, _)
RoundRobinLoop(k, current_index, turn_count, speakers) ==
    IF k = 0
    THEN [speakers |-> speakers, current_index |-> current_index, turn_count |-> turn_count]
    ELSE LET wrap == current_index >= Len(tm_speaker_queue)
             idx == IF wrap THEN 0 ELSE current_index
             tc == IF wrap THEN turn_count + 1 ELSE turn_count
             speaker == tm_speaker_queue[idx + 1]
         IN  RoundRobinLoop(k - 1, AdvanceIndex(idx), tc,
                            IF speaker \in ActiveSpeakers
                            THEN Append(speakers, speaker) ELSE speakers)

\* _get_round_robin_speakers(max_speakers)
RoundRobinSpeakers(max_speakers) ==
    LET n == Cardinality(ActiveSpeakers)
    IN  IF n = 0
        THEN [speakers |-> <<>>, current_index |-> tm_current_index,
              turn_count |-> tm_turn_count]
        ELSE RoundRobinLoop(IF max_speakers < n THEN max_speakers ELSE n,
                            tm_current_index, tm_turn_count, <<>>)

\* the last 2 * len(personas) results
KeepLatest(log) ==
    LET cap == 2 * Len(tm_speaker_queue)
    IN  IF Len(log) <= cap THEN log ELSE SubSeq(log, Len(log) - cap + 1, Len(log))

TmInit ==
    /\ \E n \in 1..MaxSpeakers : tm_speaker_queue = SubSeq(SpeakerNames, 1, n)
    /\ tm_is_active = [name \in Range(tm_speaker_queue) |-> TRUE]
    /\ tm_current_index = 0
    /\ tm_turn_count = 0
    /\ tm_turns_taken = [name \in Range(tm_speaker_queue) |-> 0]
    /\ tm_last_spoke_at_turn = [name \in Range(tm_speaker_queue) |-> -1]
    /\ tm_selected = <<>>

\* get_next_speakers(max_speakers=...) in ROUND_ROBIN mode
GetNextSpeakers(max_speakers) ==
    LET r == RoundRobinSpeakers(max_speakers)
    IN  /\ r.turn_count <= MaxTurnCount
        /\ tm_current_index' = r.current_index
        /\ tm_turn_count' = r.turn_count
        /\ tm_selected' = IF max_speakers = 1
                          THEN KeepLatest(Append(tm_selected, r.speakers))
                          ELSE <<>>
        /\ UNCHANGED <<tm_speaker_queue, tm_is_active, tm_turns_taken, tm_last_spoke_at_turn>>

\* set_speaker_active(speaker_name, active); unknown names are ignored
SetSpeakerActive(speaker_name, active) ==
    /\ tm_is_active' = IF speaker_name \in TmSpeakers
                       THEN [tm_is_active EXCEPT ![speaker_name] = active]
                       ELSE tm_is_active
    /\ tm_selected' = <<>>
    /\ UNCHANGED <<tm_speaker_queue, tm_current_index, tm_turn_count,
                   tm_turns_taken, tm_last_spoke_at_turn>>

\* reset()
TmReset ==
    /\ tm_current_index' = 0
    /\ tm_turn_count' = 0
    /\ tm_turns_taken' = [name \in TmSpeakers |-> 0]
    /\ tm_last_spoke_at_turn' = [name \in TmSpeakers |-> -1]
    /\ tm_selected' = <<>>
    /\ UNCHANGED <<tm_speaker_queue, tm_is_active>>

TmNext ==
    \/ \E m \in 1..MaxSpeakers : GetNextSpeakers(m)
    \/ \E name \in Range(SpeakerNames) : \E a \in BOOLEAN : SetSpeakerActive(name, a)
    \/ TmReset

TmIdle ==
    /\ tm_speaker_queue = <<>>
    /\ tm_is_active = <<>>
    /\ tm_current_index = 0
    /\ tm_turn_count = 0
    /\ tm_turns_taken = <<>>
    /\ tm_last_spoke_at_turn = <<>>
    /\ tm_selected = <<>>

(* ============================= orchestrator ============================= *)
MaxOrcPersonas == 2           \* personas of the session
MaxProcs == 2                 \* process_user_message calls in progress
MaxOps == 3                   \* external calls made on the session
MaxGenCalls == 2              \* external calls in the generation specification

VARIABLES
    orc_state,                  \* Orchestrator.state
    orc_mcp_mode,               \* Orchestrator._mcp_mode
    orc_pending_mcp_responses,  \* Orchestrator._pending_mcp_responses
    orc_turn_mode,              \* session.turn_mode
    orc_procs,                  \* the process_user_message calls in progress
    orc_vote,                   \* the request_vote call in progress
    orc_pause_called,           \* history: pause() was called, resume() not since
    orc_error_events,           \* personas named in a PERSONA_ERROR event
    orc_ops,                    \* external calls made so far
    db_messages,                \* Message rows in creation order
    db_session,                 \* the Session row
    db_mutations,               \* history: committed changes of the Session row
    db_votes                    \* Vote rows

orcVars == <<orc_state, orc_mcp_mode, orc_pending_mcp_responses, orc_turn_mode,
             orc_procs, orc_vote, orc_pause_called, orc_error_events, orc_ops,
             db_messages, db_session, db_mutations, db_votes>>

\* OrchestratorState
IDLE == "idle"
RUNNING == "running"
PAUSED == "paused"
STOPPED == "stopped"
VOTING == "voting"
AWAITING_MCP == "awaiting_mcp"
OrchestratorState == {IDLE, RUNNING, PAUSED, STOPPED, VOTING, AWAITING_MCP}

\* TurnMode
ROUND_ROBIN == "round_robin"
PARALLEL == "parallel"

\* SessionStatus
STATUS_ACTIVE == "active"
STATUS_PAUSED == "paused"

\* SessionPhase (two of its values)
DISCOVERY == "discovery"
IDEATION == "ideation"
SessionPhases == {DISCOVERY, IDEATION}

\* VoteType
AGREE == "agree"
DISAGREE == "disagree"
ABSTAIN == "abstain"

\* Session.version default
InitialVersion == 1

\* self.personas: the personas handed to the turn manager, in dict order
OrcPersonas == tm_speaker_queue

OrcPersonaSet == Range(tm_speaker_queue)

NewMessage(role, persona_name, turn_number) ==
    [role |-> role, persona_name |-> persona_name, turn_number |-> turn_number]

\* select(Message).order_by(Message.turn_number.desc()).limit(1), 0 without rows
LastTurnNumber(messages) ==
    IF messages = <<>> THEN 0
    ELSE CHOOSE t \in {messages[i].turn_number : i \in DOMAIN messages} :
            \A i \in DOMAIN messages : messages[i].turn_number <= t

UserMessages(messages) == SelectSeq(messages, LAMBDA m : m.role = "user")

\* personas with an assistant message of the turn
RespondedPersonas(messages, turn_number) ==
    {messages[i].persona_name : i \in {j \in DOMAIN messages :
        messages[j].role = "assistant" /\ messages[j].turn_number = turn_number}}

\* get_pending_mcp_responses()
PendingMcp ==
    {name \in DOMAIN orc_pending_mcp_responses : orc_pending_mcp_responses[name]}

NoGen == [name \in OrcPersonaSet |-> "none"]

IdleProc == [pc |-> "idle", turn_number |-> 0, gen |-> NoGen]

IdleVote == [pc |-> "idle", idx |-> 0, votes |-> <<>>, proposal_id |-> 0]

ProcSlots == 1..MaxProcs

\* calls are numbered in the order they arrive
FreeProc(h) ==
    /\ orc_procs[h].pc = "idle"
    /\ \A g \in ProcSlots : g < h => orc_procs[g].pc # "idle"

\* the generations that have started and not returned
InFlight == {<<h, name>> \in ProcSlots \X OrcPersonaSet : orc_procs[h].gen[name] = "in_flight"}

\* mark_speaker_done(speaker_name)
MarkSpeakerDone(speaker_name) ==
    /\ tm_turns_taken' = IF speaker_name \in TmSpeakers
                         THEN [tm_turns_taken EXCEPT ![speaker_name] = @ + 1]
                         ELSE tm_turns_taken
    /\ tm_last_spoke_at_turn' = IF speaker_name \in TmSpeakers
                                THEN [tm_last_spoke_at_turn EXCEPT ![speaker_name] = tm_turn_count]
                                ELSE tm_last_spoke_at_turn

\* the orchestrator of a new session, after get_orchestrator and initialize()
OrcInit ==
    /\ \E n \in 1..MaxOrcPersonas : tm_speaker_queue = SubSeq(SpeakerNames, 1, n)
    /\ tm_is_active = [name \in Range(tm_speaker_queue) |-> TRUE]
    /\ tm_current_index = 0
    /\ tm_turn_count = 0
    /\ tm_turns_taken = [name \in Range(tm_speaker_queue) |-> 0]
    /\ tm_last_spoke_at_turn = [name \in Range(tm_speaker_queue) |-> -1]
    /\ tm_selected = <<>>
    /\ orc_state = IDLE
    /\ orc_mcp_mode \in BOOLEAN
    /\ orc_pending_mcp_responses = <<>>
    /\ orc_turn_mode \in {ROUND_ROBIN, PARALLEL}
    /\ orc_procs = [h \in ProcSlots |-> [pc |-> "idle", turn_number |-> 0,
                        gen |-> [name \in Range(tm_speaker_queue) |-> "none"]]]
    /\ orc_vote = IdleVote
    /\ orc_pause_called = FALSE
    /\ orc_error_events = {}
    /\ orc_ops = 0
    /\ db_messages = <<>>
    /\ db_session = [status |-> STATUS_ACTIVE, phase |-> DISCOVERY,
                     version |-> InitialVersion,
                     mcp_mode |-> IF orc_mcp_mode THEN "on" ELSE "unset"]
    /\ db_mutations = 0
    /\ db_votes = <<>>

ExternalCall ==
    /\ orc_ops < MaxOps
    /\ orc_ops' = orc_ops + 1

\* Orchestrator.process_user_message up to its first await:
\* start_discussion() unless the state is RUNNING
EnterProcessUserMessage(h, turn_number) ==
    /\ orc_state' = RUNNING
    /\ orc_procs' = [orc_procs EXCEPT ![h] =
            [pc |-> "entered", turn_number |-> turn_number, gen |-> NoGen]]

\* chat_handler.process_user_message: the user message is stored with the
\* next turn number
WsUserMessage(h) ==
    /\ FreeProc(h)
    /\ ExternalCall
    /\ LET turn_number == LastTurnNumber(db_messages) + 1
       IN  /\ db_messages' = Append(db_messages, NewMessage("user", "", turn_number))
           /\ orc_procs' = [orc_procs EXCEPT ![h] =
                    [pc |-> "ws_saved", turn_number |-> turn_number, gen |-> NoGen]]
    /\ UNCHANGED <<orc_state, orc_mcp_mode, orc_pending_mcp_responses, orc_turn_mode,
                   orc_vote, orc_pause_called, orc_error_events,
                   db_session, db_mutations, db_votes, tmVars>>

\* chat_handler.process_user_message after the broadcast: the orchestrator is called
WsProcess(h) ==
    /\ orc_procs[h].pc = "ws_saved"
    /\ EnterProcessUserMessage(h, orc_procs[h].turn_number)
    /\ UNCHANGED <<orc_mcp_mode, orc_pending_mcp_responses, orc_turn_mode,
                   orc_vote, orc_pause_called, orc_error_events, orc_ops,
                   db_messages, db_session, db_mutations, db_votes, tmVars>>

\* trigger_session_processing: a background task processes the last user
\* message when some persona has not responded to it
TriggerSessionProcessing(h) ==
    /\ FreeProc(h)
    /\ ExternalCall
    /\ UserMessages(db_messages) # <<>>
    /\ LET turn_number == LastTurnNumber(UserMessages(db_messages))
       IN  /\ OrcPersonaSet \ RespondedPersonas(db_messages, turn_number) # {}
           /\ EnterProcessUserMessage(h, turn_number)
    /\ UNCHANGED <<orc_mcp_mode, orc_pending_mcp_responses, orc_turn_mode,
                   orc_vote, orc_pause_called, orc_error_events,
                   db_messages, db_session, db_mutations, db_votes, tmVars>>

\* MCP tool send_message: process_user_message(message, turn_number=0)
McpSendMessage(h) ==
    /\ FreeProc(h)
    /\ ExternalCall
    /\ EnterProcessUserMessage(h, 0)
    /\ UNCHANGED <<orc_mcp_mode, orc_pending_mcp_responses, orc_turn_mode,
                   orc_vote, orc_pause_called, orc_error_events,
                   db_messages, db_session, db_mutations, db_votes, tmVars>>

\* process_user_message after the history is read: in PARALLEL mode every
\* persona generates, otherwise the speaker handed out by the turn manager
\* generates if the state is still RUNNING
Dispatch(h) ==
    /\ orc_procs[h].pc = "entered"
    /\ IF orc_turn_mode = PARALLEL
       THEN /\ orc_procs' = [orc_procs EXCEPT ![h].pc = "generating",
                                ![h].gen = [name \in OrcPersonaSet |-> "in_flight"]]
            /\ UNCHANGED tmVars
       ELSE LET r == RoundRobinSpeakers(1)
            IN  /\ tm_current_index' = r.current_index
                /\ tm_turn_count' = r.turn_count
                /\ orc_procs' = [orc_procs EXCEPT ![h].pc = "generating",
                        ![h].gen = [name \in OrcPersonaSet |->
                            IF orc_state = RUNNING /\ r.speakers # <<>> /\ name = r.speakers[1]
                            THEN "in_flight" ELSE "none"]]
                /\ UNCHANGED <<tm_speaker_queue, tm_is_active, tm_turns_taken,
                               tm_last_spoke_at_turn, tm_selected>>
    /\ UNCHANGED <<orc_state, orc_mcp_mode, orc_pending_mcp_responses, orc_turn_mode,
                   orc_vote, orc_pause_called, orc_error_events, orc_ops,
                   db_messages, db_session, db_mutations, db_votes>>

\* _generate_persona_response in MCP mode: the persona is marked as awaiting
\* a response and the call returns
GenAwaitMcp(h, persona_name) ==
    /\ orc_procs[h].gen[persona_name] = "in_flight"
    /\ orc_mcp_mode
    /\ orc_pending_mcp_responses' =
            [name \in DOMAIN orc_pending_mcp_responses \cup {persona_name} |->
                IF name = persona_name THEN TRUE ELSE orc_pending_mcp_responses[name]]
    /\ orc_procs' = [orc_procs EXCEPT ![h].gen[persona_name] = "awaiting"]
    /\ UNCHANGED <<orc_state, orc_mcp_mode, orc_turn_mode, orc_vote, orc_pause_called,
                   orc_error_events, orc_ops, db_messages, db_session, db_mutations,
                   db_votes, tmVars>>

\* _generate_persona_response, the provider streamed the whole response: the
\* message is stored and the turn manager is told
GenComplete(h, persona_name) ==
    /\ orc_procs[h].gen[persona_name] = "in_flight"
    /\ ~orc_mcp_mode
    /\ db_messages' = Append(db_messages,
            NewMessage("assistant", persona_name, orc_procs[h].turn_number))
    /\ MarkSpeakerDone(persona_name)
    /\ orc_procs' = [orc_procs EXCEPT ![h].gen[persona_name] = "done"]
    /\ UNCHANGED <<orc_state, orc_mcp_mode, orc_pending_mcp_responses, orc_turn_mode,
                   orc_vote, orc_pause_called, orc_error_events, orc_ops,
                   db_session, db_mutations, db_votes,
                   tm_speaker_queue, tm_is_active, tm_current_index, tm_turn_count,
                   tm_selected>>

\* mutant: the exception leaves _generate_persona_response and ends the batch
GenAfterFailureEndsBatch(gen, persona_name) ==
    [name \in DOMAIN gen |-> IF gen[name] = "in_flight" THEN "failed" ELSE gen[name]]

\* the except branch of _generate_persona_response: the exception is caught
\* inside the persona's own call, the other calls of the gather are untouched
GenAfterFailure(gen, persona_name) ==
    [gen EXCEPT ![persona_name] = "failed"]

\* _generate_persona_response, the provider raised: a PERSONA_ERROR event
\* naming the persona is broadcast
GenFail(h, persona_name) ==
    /\ orc_procs[h].gen[persona_name] = "in_flight"
    /\ ~orc_mcp_mode
    /\ orc_error_events' = orc_error_events \cup {persona_name}
    /\ orc_procs' = [orc_procs EXCEPT ![h].gen = GenAfterFailure(@, persona_name)]
    /\ UNCHANGED <<orc_state, orc_mcp_mode, orc_pending_mcp_responses, orc_turn_mode,
                   orc_vote, orc_pause_called, orc_ops, db_messages, db_session,
                   db_mutations, db_votes, tmVars>>

\* process_user_message returns when its generations have returned
ProcReturn(h) ==
    /\ orc_procs[h].pc = "generating"
    /\ \A name \in OrcPersonaSet : orc_procs[h].gen[name] # "in_flight"
    /\ orc_procs' = [orc_procs EXCEPT ![h] = IdleProc]
    /\ UNCHANGED <<orc_state, orc_mcp_mode, orc_pending_mcp_responses, orc_turn_mode,
                   orc_vote, orc_pause_called, orc_error_events, orc_ops,
                   db_messages, db_session, db_mutations, db_votes, tmVars>>

\* start_discussion(), the START_DISCUSSION event
StartDiscussion ==
    /\ ExternalCall
    /\ orc_state' = RUNNING
    /\ UNCHANGED <<orc_mcp_mode, orc_pending_mcp_responses, orc_turn_mode, orc_procs,
                   orc_vote, orc_pause_called, orc_error_events,
                   db_messages, db_session, db_mutations, db_votes, tmVars>>

\* pause()
Pause ==
    /\ ExternalCall
    /\ orc_state' = PAUSED
    /\ orc_pause_called' = TRUE
    /\ UNCHANGED <<orc_mcp_mode, orc_pending_mcp_responses, orc_turn_mode, orc_procs,
                   orc_vote, orc_error_events,
                   db_messages, db_session, db_mutations, db_votes, tmVars>>

\* resume()
Resume ==
    /\ ExternalCall
    /\ orc_state' = IF orc_state = PAUSED THEN RUNNING ELSE orc_state
    /\ orc_pause_called' = FALSE
    /\ UNCHANGED <<orc_mcp_mode, orc_pending_mcp_responses, orc_turn_mode, orc_procs,
                   orc_vote, orc_error_events,
                   db_messages, db_session, db_mutations, db_votes, tmVars>>

\* stop(): the state becomes STOPPED and the session row's status PAUSED
Stop ==
    /\ ExternalCall
    /\ orc_state' = STOPPED
    /\ db_session' = [db_session EXCEPT !.status = STATUS_PAUSED]
    /\ db_mutations' = IF db_session.status # STATUS_PAUSED
                       THEN db_mutations + 1 ELSE db_mutations
    /\ UNCHANGED <<orc_mcp_mode, orc_pending_mcp_responses, orc_turn_mode, orc_procs,
                   orc_vote, orc_pause_called, orc_error_events,
                   db_messages, db_votes, tmVars>>

\* the SET_MCP_MODE event: set_mcp_mode(enabled), then config["mcp_mode"] is
\* written to the session row.  An empty config is replaced by a new dict and
\* is stored; a non-empty one is changed in place and assigned back, which the
\* ORM may or may not see as a change of the JSON column.
SetMcpMode(enabled) ==
    /\ ExternalCall
    /\ orc_mcp_mode' = enabled
    /\ \E stored \in BOOLEAN :
        /\ db_session.mcp_mode = "unset" => stored
        /\ LET flag == IF enabled THEN "on" ELSE "off"
               changed == stored /\ db_session.mcp_mode # flag
           IN  /\ db_session' = IF changed THEN [db_session EXCEPT !.mcp_mode = flag]
                                ELSE db_session
               /\ db_mutations' = IF changed THEN db_mutations + 1 ELSE db_mutations
    /\ UNCHANGED <<orc_state, orc_pending_mcp_responses, orc_turn_mode, orc_procs,
                   orc_vote, orc_pause_called, orc_error_events,
                   db_messages, db_votes, tmVars>>

\* receive_mcp_response(persona_name, content)
ReceiveMcpResponse(persona_name) ==
    /\ ExternalCall
    /\ IF persona_name \in DOMAIN orc_pending_mcp_responses
       THEN /\ orc_pending_mcp_responses' =
                    [orc_pending_mcp_responses EXCEPT ![persona_name] = FALSE]
            /\ MarkSpeakerDone(persona_name)
       ELSE UNCHANGED <<orc_pending_mcp_responses, tm_turns_taken, tm_last_spoke_at_turn>>
    /\ UNCHANGED <<orc_state, orc_mcp_mode, orc_turn_mode, orc_procs, orc_vote,
                   orc_pause_called, orc_error_events,
                   db_messages, db_session, db_mutations, db_votes,
                   tm_speaker_queue, tm_is_active, tm_current_index, tm_turn_count,
                   tm_selected>>

\* advance_phase(new_phase)
AdvancePhase(new_phase) ==
    /\ ExternalCall
    /\ db_session' = [db_session EXCEPT !.phase = new_phase, !.version = @ + 1]
    /\ db_mutations' = db_mutations + 1
    /\ UNCHANGED <<orc_state, orc_mcp_mode, orc_pending_mcp_responses, orc_turn_mode,
                   orc_procs, orc_vote, orc_pause_called, orc_error_events,
                   db_messages, db_votes, tmVars>>

NewVoteResult(persona_name, vote) == [persona_name |-> persona_name, vote |-> vote]

\* _save_vote: the Vote row of a vote result
NewVoteRow(proposal_id, vote_result) ==
    [proposal_id |-> proposal_id, persona_name |-> vote_result.persona_name,
     vote |-> vote_result.vote]

\* request_vote(proposal) up to collect_votes: the state becomes VOTING
RequestVote ==
    /\ orc_vote.pc = "idle"
    /\ ExternalCall
    /\ orc_state' = VOTING
    /\ orc_vote' = [pc |-> "collect", idx |-> 1, votes |-> <<>>,
                    proposal_id |-> orc_vote.proposal_id + 1]
    /\ UNCHANGED <<orc_mcp_mode, orc_pending_mcp_responses, orc_turn_mode, orc_procs,
                   orc_pause_called, orc_error_events,
                   db_messages, db_session, db_mutations, db_votes, tmVars>>

\* collect_votes, one pass of its loop.  outcome "saved": the provider
\* answered, the vote is appended and stored; "provider_error": the provider
\* raised, an abstention is appended; "save_error": the vote is appended,
\* _save_vote raised and the except branch appends an abstention as well
CollectVote(vote, outcome) ==
    /\ orc_vote.pc = "collect"
    /\ orc_vote.idx <= Len(OrcPersonas)
    /\ LET persona_name == OrcPersonas[orc_vote.idx]
           vote_result == NewVoteResult(persona_name, vote)
           abstention == NewVoteResult(persona_name, ABSTAIN)
           votes == CASE outcome = "saved" -> Append(orc_vote.votes, vote_result)
                      [] outcome = "provider_error" -> Append(orc_vote.votes, abstention)
                      [] OTHER -> Append(Append(orc_vote.votes, vote_result), abstention)
       IN  /\ orc_vote' = [orc_vote EXCEPT !.idx = @ + 1, !.votes = votes]
           /\ db_votes' = IF outcome = "saved"
                          THEN Append(db_votes, NewVoteRow(orc_vote.proposal_id, vote_result))
                          ELSE db_votes
    /\ UNCHANGED <<orc_state, orc_mcp_mode, orc_pending_mcp_responses, orc_turn_mode,
                   orc_procs, orc_pause_called, orc_error_events, orc_ops,
                   db_messages, db_session, db_mutations, tmVars>>

\* collect_votes returns its list
CollectReturn ==
    /\ orc_vote.pc = "collect"
    /\ orc_vote.idx > Len(OrcPersonas)
    /\ orc_vote' = [orc_vote EXCEPT !.pc = "analyze"]
    /\ UNCHANGED <<orc_state, orc_mcp_mode, orc_pending_mcp_responses, orc_turn_mode,
                   orc_procs, orc_pause_called, orc_error_events, orc_ops,
                   db_messages, db_session, db_mutations, db_votes, tmVars>>

\* request_vote after analyze_votes and the VOTE_COMPLETE broadcast
RequestVoteReturn ==
    /\ orc_vote.pc = "analyze"
    /\ orc_state' = RUNNING
    /\ orc_vote' = [IdleVote EXCEPT !.proposal_id = orc_vote.proposal_id]
    /\ UNCHANGED <<orc_mcp_mode, orc_pending_mcp_responses, orc_turn_mode, orc_procs,
                   orc_pause_called, orc_error_events, orc_ops,
                   db_messages, db_session, db_mutations, db_votes, tmVars>>

\* request_vote left by an exception at one of its awaits (the task is
\* cancelled, which except Exception does not catch, or a broadcast iterates
\* the connection set while a client connects or disconnects): nothing after
\* the await runs
RequestVoteRaise ==
    /\ orc_vote.pc \in {"collect", "analyze"}
    /\ orc_vote' = [IdleVote EXCEPT !.proposal_id = orc_vote.proposal_id]
    /\ UNCHANGED <<orc_state, orc_mcp_mode, orc_pending_mcp_responses, orc_turn_mode,
                   orc_procs, orc_pause_called, orc_error_events, orc_ops,
                   db_messages, db_session, db_mutations, db_votes, tmVars>>

OrcNext ==
    \/ \E h \in ProcSlots : WsUserMessage(h)
    \/ \E h \in ProcSlots : WsProcess(h)
    \/ \E h \in ProcSlots : TriggerSessionProcessing(h)
    \/ \E h \in ProcSlots : McpSendMessage(h)
    \/ \E h \in ProcSlots : Dispatch(h)
    \/ \E h \in ProcSlots : \E name \in OrcPersonaSet : GenAwaitMcp(h, name)
    \/ \E h \in ProcSlots : \E name \in OrcPersonaSet : GenComplete(h, name)
    \/ \E h \in ProcSlots : \E name \in OrcPersonaSet : GenFail(h, name)
    \/ \E h \in ProcSlots : ProcReturn(h)
    \/ StartDiscussion
    \/ Pause
    \/ Resume
    \/ Stop
    \/ \E enabled \in BOOLEAN : SetMcpMode(enabled)
    \/ \E name \in OrcPersonaSet : ReceiveMcpResponse(name)
    \/ \E new_phase \in SessionPhases : AdvancePhase(new_phase)
    \/ RequestVote
    \/ \E vote \in {AGREE, DISAGREE, ABSTAIN} :
          \E outcome \in {"saved", "provider_error", "save_error"} : CollectVote(vote, outcome)
    \/ CollectReturn
    \/ RequestVoteReturn
    \/ RequestVoteRaise

OrcIdle ==
    /\ orc_state = IDLE
    /\ orc_mcp_mode = FALSE
    /\ orc_pending_mcp_responses = <<>>
    /\ orc_turn_mode = ROUND_ROBIN
    /\ orc_procs = <<>>
    /\ orc_vote = IdleVote
    /\ orc_pause_called = FALSE
    /\ orc_error_events = {}
    /\ orc_ops = 0
    /\ db_messages = <<>>
    /\ db_session = [status |-> STATUS_ACTIVE, phase |-> DISCOVERY,
                     version |-> InitialVersion, mcp_mode |-> "unset"]
    /\ db_mutations = 0
    /\ db_votes = <<>>

(* ========================== consensus engine =========================== *)
MaxReplyLines == 2            \* lines of a persona's reply to the vote prompt

VARIABLES
    ce_response,        \* the reply handed to _parse_vote_response
    ce_parsed           \* the VoteResult it returned, NotParsed before the call

parseVars == <<ce_response, ce_parsed>>

\* str.upper() on the letters the replies use
Upper(c) ==
    CASE c = "a" -> "A"
      [] c = "e" -> "E"
      [] c = "g" -> "G"
      [] c = "o" -> "O"
      [] c = "r" -> "R"
      [] c = "t" -> "T"
      [] c = "v" -> "V"
      [] OTHER -> c

UpperText(t) == [i \in DOMAIN t |-> Upper(t[i])]

\* the positions at which pat occurs in t
Occurrences(pat, t) ==
    {i \in 1..(Len(t) - Len(pat) + 1) : SubSeq(t, i, i + Len(pat) - 1) = pat}

\* pat in t
Contains(pat, t) == Occurrences(pat, t) # {}

MinOfSet(S) == CHOOSE x \in S : \A y \in S : x <= y

\* t.split(pat)[1] when pat occurs in t: the text between the first
\* occurrence of pat and the next one that does not overlap it
SplitSecond(pat, t) ==
    LET first == MinOfSet(Occurrences(pat, t))
        rest == SubSeq(t, first + Len(pat), Len(t))
        occ == Occurrences(pat, rest)
    IN  IF occ = {} THEN rest ELSE SubSeq(rest, 1, MinOfSet(occ) - 1)

\* t.split("\n")[0]
FirstLine(t) ==
    LET nl == {i \in DOMAIN t : t[i] = "\n"}
    IN  IF nl = {} THEN t ELSE SubSeq(t, 1, MinOfSet(nl) - 1)

\* t[:n]
Prefix(t, n) == SubSeq(t, 1, IF Len(t) < n THEN Len(t) ELSE n)

KeywordWindow == 50

VOTE_MARKER == <<"V", "O", "T", "E", ":">>
CONFIDENCE_MARKER == <<"C", "O", "N", "F", "I", "D", "E", "N", "C", "E", ":">>
KW_AGREE == <<"A", "G", "R", "E", "E">>
KW_DISAGREE == <<"D", "I", "S", "A", "G", "R", "E", "E">>
KW_I_AGREE == <<"I", " ", "A", "G", "R", "E", "E">>
KW_I_DISAGREE == <<"I", " ", "D", "I", "S", "A", "G", "R", "E", "E">>
KW_YES == <<"Y", "E", "S">>
KW_NO == <<"N", "O">>

Digits == <<"0", "1", "2", "3", "4", "5", "6", "7", "8", "9">>

DigitValue(c) == (CHOOSE i \in DOMAIN Digits : Digits[i] = c) - 1

IsDigit(c) == c \in Range(Digits)

\* float(conf_str.replace(",", ".")) in tenths for the forms "d", "d.d" and
\* "d,d"; -1 where float() raises ValueError
ParseFloatTenths(t) ==
    IF Len(t) = 1 /\ IsDigit(t[1]) THEN 10 * DigitValue(t[1])
    ELSE IF Len(t) = 3 /\ IsDigit(t[1]) /\ t[2] \in {".", ","} /\ IsDigit(t[3])
         THEN 10 * DigitValue(t[1]) + DigitValue(t[3])
         ELSE -1

\* max(0.0, min(1.0, confidence)) in tenths
ClampConfidence(c) == IF c > 10 THEN 10 ELSE IF c < 0 THEN 0 ELSE c

DefaultConfidence == 5

\* _parse_vote_response: the vote and the confidence (in tenths) of the result
ParseVoteResponse(response) ==
    LET response_upper == UpperText(response)
        vote ==
            IF Contains(VOTE_MARKER, response_upper)
            THEN LET line == FirstLine(SplitSecond(VOTE_MARKER, response_upper))
                 IN  IF Contains(KW_AGREE, line) THEN AGREE
                     ELSE IF Contains(KW_DISAGREE, line) THEN DISAGREE
                     ELSE ABSTAIN
            ELSE LET window == Prefix(response_upper, KeywordWindow)
                 IN  IF Contains(KW_I_AGREE, response_upper) \/ Contains(KW_YES, window)
                     THEN AGREE
                     ELSE IF Contains(KW_I_DISAGREE, response_upper) \/ Contains(KW_NO, window)
                          THEN DISAGREE
                          ELSE ABSTAIN
        confidence ==
            IF Contains(CONFIDENCE_MARKER, response_upper)
            THEN LET conf_str == Strip(FirstLine(SplitSecond(CONFIDENCE_MARKER, response_upper)))
                     parsed == ParseFloatTenths(conf_str)
                 IN  IF parsed = -1 THEN DefaultConfidence ELSE ClampConfidence(parsed)
            ELSE DefaultConfidence
    IN  [vote |-> vote, confidence |-> confidence]

NotParsed == [vote |-> "none", confidence |-> -1]

\* the lines a reply is made of
ReplyLines ==
    { <<"V", "O", "T", "E", ":", " ", "A", "G", "R", "E", "E">>,
      <<"V", "O", "T", "E", ":", " ", "D", "I", "S", "A", "G", "R", "E", "E">>,
      <<"V", "O", "T", "E", ":", " ", "A", "B", "S", "T", "A", "I", "N">>,
      <<"v", "o", "t", "e", ":", " ", "a", "g", "r", "e", "e">>,
      <<"V", "O", "T", "E", ":", " ", "M", "A", "Y", "B", "E">>,
      <<"I", " ", "D", "I", "S", "A", "G", "R", "E", "E">>,
      <<"U", "N", "S", "U", "R", "E">>,
      <<"C", "O", "N", "F", "I", "D", "E", "N", "C", "E", ":", " ", "0", ".", "9">>,
      [i \in 1..KeywordWindow |-> "."] }

LineCount(t) == IF t = <<>> THEN 0 ELSE 1 + Cardinality({i \in DOMAIN t : t[i] = "\n"})

ParseInit ==
    /\ ce_response = <<>>
    /\ ce_parsed = NotParsed

\* the provider's reply grows by a line
ReplyLine(line) ==
    /\ ce_parsed = NotParsed
    /\ LineCount(ce_response) < MaxReplyLines
    /\ ce_response' = IF ce_response = <<>> THEN line ELSE ce_response \o <<"\n">> \o line
    /\ UNCHANGED ce_parsed

\* _parse_vote_response(persona_name, response)
ParseVote ==
    /\ ce_parsed = NotParsed
    /\ ce_parsed' = ParseVoteResponse(ce_response)
    /\ UNCHANGED ce_response

ParseNext ==
    \/ \E line \in ReplyLines : ReplyLine(line)
    \/ ParseVote

(* ------------------------- analyze_votes and trend ------------------------ *)
MaxVoters == 3                \* personas whose votes one analysis receives
MaxHistory == 4               \* analyses recorded in agreement_history

VARIABLES
    ce_mode,            \* ConsensusEngine.mode
    ce_votes,           \* the votes argument of the latest analyze_votes call
    ce_result,          \* what the latest analyze_votes call returned
    agreement_history,  \* ConsensusEngine.agreement_history
    db_insights,        \* the Insight rows: personas_involved of each
    ce_trend            \* the trend get_agreement_trend reported last

analysisVars == <<ce_mode, ce_votes, ce_result, agreement_history, db_insights, ce_trend>>

MAJORITY == "majority"
SUPERMAJORITY == "supermajority"
UNANIMOUS == "unanimous"
RANKED_CHOICE == "ranked_choice"
WEIGHTED == "weighted"

ConsensusMode == {MAJORITY, SUPERMAJORITY, UNANIMOUS, RANKED_CHOICE, WEIGHTED}

\* ConsensusEngine.threshold, in tenths
Threshold == 5

\* the confidences of collected votes, in tenths: the abstention recorded on
\* an error, the parser's default and a full confidence
Confidences == {0, 5, 10}

VoteTypes == {AGREE, DISAGREE, ABSTAIN}

\* the lists collect_votes returns for the first n personas
VoteLists(n) ==
    [1..n -> [vote : VoteTypes, confidence : Confidences]]

VoteResults(choice) ==
    [i \in DOMAIN choice |->
        [persona_name |-> SpeakerNames[i], vote |-> choice[i].vote,
         confidence |-> choice[i].confidence]]

RECURSIVE GCD(_, _)
GCD(a, b) == IF b = 0 THEN a ELSE GCD(b, a % b)

\* the quotient n / d as a fraction in lowest terms
Ratio(n, d) == IF n = 0 THEN <<0, 1>> ELSE <<n \div GCD(n, d), d \div GCD(n, d)>>

Half == <<1, 2>>

\* a < b, a <= b on fractions
FracLess(a, b) == a[1] * b[2] < b[1] * a[2]

FracLeq(a, b) == a[1] * b[2] <= b[1] * a[2]

CountVotes(votes, type) == Cardinality({i \in DOMAIN votes : votes[i].vote = type})

MaxOf(a, b) == IF a > b THEN a ELSE b

\* sum(v.confidence for v in votes if v.vote == type)
WeightOf(votes, type) ==
    SumSeq([i \in DOMAIN votes |-> IF votes[i].vote = type THEN votes[i].confidence ELSE 0])

\* agreement_score > 0.5 or disagree_count / max(voting_count, 1) > 0.5
MajorityReachedGeq(agreement_score, disagree_count, voting_count) ==
    \/ FracLeq(Half, agreement_score)
    \/ FracLeq(Half, Ratio(disagree_count, MaxOf(voting_count, 1)))

MajorityReached(agreement_score, disagree_count, voting_count) ==
    \/ FracLess(Half, agreement_score)
    \/ FracLess(Half, Ratio(disagree_count, MaxOf(voting_count, 1)))

\* the literal 0.67
SupermajorityLevel == <<67, 100>>

SupermajorityReached(agreement_score, disagree_count, voting_count) ==
    \/ FracLeq(SupermajorityLevel, agreement_score)
    \/ FracLeq(SupermajorityLevel, Ratio(disagree_count, MaxOf(voting_count, 1)))

UnanimousReached(agree_count, disagree_count, total_votes) ==
    agree_count = total_votes \/ disagree_count = total_votes

\* the dissenters in the order of the votes
Dissenters(votes, majority_vote) ==
    IF majority_vote = "none" THEN <<>>
    ELSE LET idx == SetToSeq({i \in DOMAIN votes :
                         votes[i].vote # majority_vote /\ votes[i].vote # ABSTAIN})
             ord == SortedBy(idx, [i \in Range(idx) |-> i])
         IN  [k \in DOMAIN ord |-> votes[ord[k]].persona_name]

\* len(dissenting_personas) > 0 and not consensus_reached
InsightNeededAnyDissent(dissenting_personas, consensus_reached) ==
    Len(dissenting_personas) > 0

InsightNeeded(dissenting_personas, consensus_reached) ==
    Len(dissenting_personas) > 0 /\ ~consensus_reached

\* the result of analyze_votes for a non-empty vote list
Analysis(mode, votes) ==
    LET agree_count == CountVotes(votes, AGREE)
        disagree_count == CountVotes(votes, DISAGREE)
        abstain_count == CountVotes(votes, ABSTAIN)
        total_votes == Len(votes)
        voting_count == agree_count + disagree_count
        count_score == IF voting_count > 0 THEN Ratio(agree_count, voting_count) ELSE Half
        weighted_agree == WeightOf(votes, AGREE)
        total_weight == weighted_agree + WeightOf(votes, DISAGREE)
        agreement_score ==
            IF mode = WEIGHTED /\ total_weight > 0
            THEN Ratio(weighted_agree, total_weight)
            ELSE count_score
        consensus_reached ==
            CASE mode = MAJORITY -> MajorityReached(agreement_score, disagree_count, voting_count)
              [] mode = SUPERMAJORITY ->
                    SupermajorityReached(agreement_score, disagree_count, voting_count)
              [] mode = UNANIMOUS -> UnanimousReached(agree_count, disagree_count, total_votes)
              [] mode = WEIGHTED -> FracLess(<<Threshold, 10>>, agreement_score)
              [] OTHER -> FALSE
        majority_vote ==
            IF agree_count > disagree_count THEN AGREE
            ELSE IF disagree_count > agree_count THEN DISAGREE
            ELSE "none"
    IN  [consensus_reached |-> consensus_reached,
         agreement_score |-> agreement_score,
         majority_vote |-> majority_vote,
         votes |-> [agree |-> agree_count, disagree |-> disagree_count,
                    abstain |-> abstain_count],
         dissenting_personas |-> Dissenters(votes, majority_vote)]

\* the early return for an empty vote list
EmptyAnalysis == [consensus_reached |-> FALSE, agreement_score |-> <<0, 1>>, votes |-> <<>>]

NoResult == [consensus_reached |-> FALSE]

\* analyze_votes left by the exception of _create_insight
Raised == [raised |-> TRUE]

AnalysisInit ==
    /\ ce_mode \in ConsensusMode
    /\ ce_votes = <<>>
    /\ ce_result = NoResult
    /\ agreement_history = <<>>
    /\ db_insights = <<>>
    /\ ce_trend = "unset"

AnalysisIdle == AnalysisInit /\ ce_mode = MAJORITY

\* analyze_votes(proposal, votes); the commit of _create_insight succeeds or
\* raises
AnalyzeVotes(votes, outcome) ==
    /\ Len(agreement_history) < MaxHistory
    /\ ce_votes' = votes
    /\ UNCHANGED <<ce_mode, ce_trend>>
    /\ IF votes = <<>>
       THEN /\ outcome = "ok"
            /\ ce_result' = EmptyAnalysis
            /\ UNCHANGED <<agreement_history, db_insights>>
       ELSE LET r == Analysis(ce_mode, votes)
            IN  /\ agreement_history' = Append(agreement_history, r.agreement_score)
                /\ IF InsightNeeded(r.dissenting_personas, r.consensus_reached)
                   THEN \/ /\ outcome = "ok"
                           /\ db_insights' = Append(db_insights, r.dissenting_personas)
                           /\ ce_result' = r
                        \/ /\ outcome = "db_error"
                           /\ ce_result' = Raised
                           /\ UNCHANGED db_insights
                   ELSE /\ outcome = "ok"
                        /\ ce_result' = r
                        /\ UNCHANGED db_insights

\* the trend of a non-empty history
TrendOf(history) ==
    IF Len(history) >= 3
    THEN LET recent == SubSeq(history, Len(history) - 2, Len(history))
         IN  IF \A i \in 1..2 : FracLeq(recent[i], recent[i + 1]) THEN "increasing"
             ELSE IF \A i \in 1..2 : FracLeq(recent[i + 1], recent[i]) THEN "decreasing"
             ELSE "stable"
    ELSE "insufficient_data"

\* get_agreement_trend()
GetAgreementTrend ==
    /\ ce_trend' = IF agreement_history = <<>> THEN "none" ELSE TrendOf(agreement_history)
    /\ UNCHANGED <<ce_mode, ce_votes, ce_result, agreement_history, db_insights>>

\* one analysis of the votes of up to MaxVoters personas
AnalysisNext ==
    \E n \in 0..MaxVoters : \E choice \in VoteLists(n) : \E outcome \in {"ok", "db_error"} :
        /\ ce_result = NoResult
        /\ AnalyzeVotes(VoteResults(choice), outcome)

\* the votes whose confidence is the parser's default
DefaultVoteLists(n) == [1..n -> [vote : VoteTypes, confidence : {DefaultConfidence}]]

\* successive analyses of one engine, with the trend read in between
TrendNext ==
    \/ \E n \in 0..MaxVoters : \E choice \in DefaultVoteLists(n) :
          \E outcome \in {"ok", "db_error"} : AnalyzeVotes(VoteResults(choice), outcome)
    \/ GetAgreementTrend

(* ========================== context manager ============================ *)
MaxCtxAdds == 8               \* add_message calls in the truncation runs
MaxSummaryMessages == 11      \* messages retained in the summary runs
MaxSummaries == 1             \* summaries created in the summary runs
MaxSystemPromptTokens == 3    \* system_prompt_tokens of get_context_for_prompt
MaxBudget == 10               \* budgets of the warning runs
MaxUsage == 11                \* tokens of the message of the warning runs

VARIABLES
    cm_budget,              \* ContextManager.budget
    cm_reserve_for_response,
    cm_messages,            \* ContextManager.messages
    cm_summaries,           \* ContextManager.summaries
    cm_total_tokens_used,
    cm_messages_truncated,
    cm_summaries_created,
    cm_adds,                \* add_message calls made
    cm_fit,                 \* what the latest add_message returned
    cm_summary_returned,    \* what the latest create_summary returned
    cm_context,             \* the latest get_context_for_prompt call and its result
    cm_warning              \* what the latest get_budget_warning returned

cmVars == <<cm_budget, cm_reserve_for_response, cm_messages, cm_summaries,
            cm_total_tokens_used, cm_messages_truncated, cm_summaries_created,
            cm_adds, cm_fit, cm_summary_returned, cm_context, cm_warning>>

\* a content of n tokens
Content(n) == [i \in 1..n |-> "t"]

\* count_tokens(text): the tokenizer yields one token per element
CountTokens(text) == Len(text)

\* importances, in tenths
Importances == {5, 10}

ContextMessage(content, importance) ==
    [content |-> content, token_count |-> CountTokens(content), importance |-> importance]

Min2(a, b) == IF a < b THEN a ELSE b

KeepRecent == 5

\* list.remove(x): the list without its first element equal to x
RemoveFirst(list, x) ==
    LET at == MinOfSet({i \in DOMAIN list : list[i] = x})
    IN  SubSeq(list, 1, at - 1) \o SubSeq(list, at + 1, Len(list))

\* the loop over older_sorted: the messages taken until removed_tokens >= excess
RECURSIVE MessagesToRemove(_, _, _)
MessagesToRemove(older_sorted, removed_tokens, excess) ==
    IF older_sorted = <<>> \/ removed_tokens >= excess THEN <<>>
    ELSE <<Head(older_sorted)>>
            \o MessagesToRemove(Tail(older_sorted),
                                removed_tokens + Head(older_sorted).token_count, excess)

\* the removal loop over messages_to_remove
RECURSIVE RemoveSelected(_, _)
RemoveSelected(ctx, to_remove) ==
    IF to_remove = <<>> THEN ctx
    ELSE LET msg == Head(to_remove)
         IN  IF msg \in Range(ctx.messages)
             THEN RemoveSelected(
                      [messages |-> RemoveFirst(ctx.messages, msg),
                       total_tokens_used |-> ctx.total_tokens_used - msg.token_count,
                       messages_truncated |-> ctx.messages_truncated + 1],
                      Tail(to_remove))
             ELSE RemoveSelected(ctx, Tail(to_remove))

\* the importance order without the stable tie-break: ties newest first
OlderSortedNewestFirst(older_messages) ==
    LET n == Len(older_messages)
        order == SortedBy([i \in 1..n |-> n + 1 - i],
                          [i \in 1..n |-> older_messages[i].importance])
    IN  [k \in 1..n |-> older_messages[order[k]]]

\* sorted(older_messages, key=lambda m: m.importance)
OlderSorted(older_messages) ==
    LET n == Len(older_messages)
        order == SortedBy([i \in 1..n |-> i],
                          [i \in 1..n |-> older_messages[i].importance])
    IN  [k \in 1..n |-> older_messages[order[k]]]

\* _truncate_context(target_tokens) on the context ctx
TruncateContext(ctx, target_tokens) ==
    IF ctx.messages = <<>> THEN ctx
    ELSE LET excess == ctx.total_tokens_used - target_tokens
             keep_recent == Min2(KeepRecent, Len(ctx.messages))
             older_messages == SubSeq(ctx.messages, 1, Len(ctx.messages) - keep_recent)
         IN  IF older_messages = <<>> THEN ctx
             ELSE RemoveSelected(ctx, MessagesToRemove(OlderSorted(older_messages), 0, excess))

CmInit(budgets, reserves) ==
    /\ cm_budget \in budgets
    /\ cm_reserve_for_response \in reserves
    /\ cm_messages = <<>>
    /\ cm_summaries = <<>>
    /\ cm_total_tokens_used = 0
    /\ cm_messages_truncated = 0
    /\ cm_summaries_created = 0
    /\ cm_adds = 0
    /\ cm_fit = "unset"
    /\ cm_summary_returned = "unset"
    /\ cm_context = [system_prompt_tokens |-> -1, context |-> <<>>]
    /\ cm_warning = "unset"

\* the constructor's defaults scaled down
CmIdle == CmInit({50}, {2})

\* add_message(role, content, persona_name, importance)
AddMessage(content, importance) ==
    LET message == ContextMessage(content, importance)
        appended == [messages |-> Append(cm_messages, message),
                     total_tokens_used |-> cm_total_tokens_used + message.token_count,
                     messages_truncated |-> cm_messages_truncated]
        available == cm_budget - cm_reserve_for_response
        after == IF appended.total_tokens_used > available
                 THEN TruncateContext(appended, available)
                 ELSE appended
    IN  /\ cm_messages' = after.messages
        /\ cm_total_tokens_used' = after.total_tokens_used
        /\ cm_messages_truncated' = after.messages_truncated
        /\ cm_fit' = IF appended.total_tokens_used > available THEN "False" ELSE "True"
        /\ cm_adds' = cm_adds + 1
        /\ UNCHANGED <<cm_budget, cm_reserve_for_response, cm_summaries,
                       cm_summaries_created, cm_summary_returned, cm_context, cm_warning>>

SummaryMinMessages == 10

\* the split point one message too far
SplitPointRoundedUp(n) == (n + 1) \div 2

\* split_point = len(self.messages) // 2
SplitPoint(n) == n \div 2

\* create_summary(provider): the provider's reply has summary_tokens tokens,
\* or its call raises
CreateSummary(outcome, summary_tokens) ==
    IF Len(cm_messages) < SummaryMinMessages \/ outcome = "provider_error"
    THEN /\ cm_summary_returned' = "None"
         /\ UNCHANGED <<cm_budget, cm_reserve_for_response, cm_messages, cm_summaries,
                        cm_total_tokens_used, cm_messages_truncated, cm_summaries_created,
                        cm_adds, cm_fit, cm_context, cm_warning>>
    ELSE LET split_point == SplitPoint(Len(cm_messages))
             to_summarize == SubSeq(cm_messages, 1, split_point)
             summary == [original_messages |-> Len(to_summarize),
                         token_count |-> summary_tokens]
             tokens_freed == SumSeq([i \in DOMAIN to_summarize |-> to_summarize[i].token_count])
         IN  /\ cm_messages' = SubSeq(cm_messages, split_point + 1, Len(cm_messages))
             /\ cm_total_tokens_used' = cm_total_tokens_used - tokens_freed + summary.token_count
             /\ cm_summaries' = Append(cm_summaries, summary)
             /\ cm_summaries_created' = cm_summaries_created + 1
             /\ cm_summary_returned' = "summary"
             /\ UNCHANGED <<cm_budget, cm_reserve_for_response, cm_messages_truncated,
                            cm_adds, cm_fit, cm_context, cm_warning>>

\* the test letting through an item one token too large
FitsWithSlack(tokens_used, item, available) ==
    ~(tokens_used + item.token_count > available + 1)

\* not (tokens_used + item.token_count > available)
Fits(tokens_used, item, available) ==
    ~(tokens_used + item.token_count > available)

\* a loop of get_context_for_prompt: the items taken before the first one
\* that does not fit
RECURSIVE TakeFitting(_, _, _)
TakeFitting(items, tokens_used, available) ==
    IF items = <<>> \/ ~Fits(tokens_used, Head(items), available) THEN <<>>
    ELSE <<Head(items)>>
            \o TakeFitting(Tail(items), tokens_used + Head(items).token_count, available)

TokensOf(items) == SumSeq([i \in DOMAIN items |-> items[i].token_count])

\* get_context_for_prompt(system_prompt_tokens)
GetContextForPrompt(system_prompt_tokens) ==
    LET available == cm_budget - cm_reserve_for_response - system_prompt_tokens
        summaries == TakeFitting(cm_summaries, 0, available)
        messages == TakeFitting(cm_messages, TokensOf(summaries), available)
    IN  /\ cm_context' =
               [system_prompt_tokens |-> system_prompt_tokens,
                context |-> [i \in DOMAIN summaries |->
                                 [role |-> "system", token_count |-> summaries[i].token_count]]
                            \o [i \in DOMAIN messages |->
                                 [role |-> "user", token_count |-> messages[i].token_count]]]
        /\ UNCHANGED <<cm_budget, cm_reserve_for_response, cm_messages, cm_summaries,
                       cm_total_tokens_used, cm_messages_truncated, cm_summaries_created,
                       cm_adds, cm_fit, cm_summary_returned, cm_warning>>

\* get_budget_warning(): utilization = total_tokens_used / budget against 0.9
\* and 0.75
GetBudgetWarning ==
    /\ cm_warning' =
           IF cm_budget = 0 THEN "ZeroDivisionError"
           ELSE IF FracLess(<<9, 10>>, <<cm_total_tokens_used, cm_budget>>) THEN "CRITICAL"
           ELSE IF FracLess(<<3, 4>>, <<cm_total_tokens_used, cm_budget>>) THEN "WARNING"
           ELSE "None"
    /\ UNCHANGED <<cm_budget, cm_reserve_for_response, cm_messages, cm_summaries,
                   cm_total_tokens_used, cm_messages_truncated, cm_summaries_created,
                   cm_adds, cm_fit, cm_summary_returned, cm_context>>

\* messages of one or two tokens and either importance, MaxCtxAdds of them
CtxNext ==
    \E n \in 1..2 : \E importance \in Importances :
        /\ cm_adds < MaxCtxAdds
        /\ AddMessage(Content(n), importance)

ContextRead == cm_context.system_prompt_tokens # -1

\* messages of one importance, a summary once enough are retained, and the
\* context read at the end
SummaryNext ==
    \/ \E n \in 1..2 :
          /\ ~ContextRead
          /\ Len(cm_messages) < MaxSummaryMessages
          /\ cm_adds < MaxSummaryMessages + KeepRecent
          /\ AddMessage(Content(n), 10)
    \/ \E outcome \in {"ok", "provider_error"} : \E summary_tokens \in {1, 12} :
          /\ ~ContextRead
          /\ Len(cm_summaries) < MaxSummaries
          /\ outcome = "provider_error" => summary_tokens = 1
          /\ CreateSummary(outcome, summary_tokens)
    \/ \E system_prompt_tokens \in 0..MaxSystemPromptTokens :
          /\ ~ContextRead
          /\ GetContextForPrompt(system_prompt_tokens)

\* one message of up to MaxUsage tokens, then the warning
WarningNext ==
    \/ \E n \in 0..MaxUsage :
          /\ cm_adds = 0
          /\ AddMessage(Content(n), 10)
    \/ GetBudgetWarning

(* ============== context manager: create_summary at its await ============ *)
VARIABLES
    cm_suspended    \* the locals of a create_summary call waiting for the provider

cmAwaitVars == <<cm_suspended>>

NoSummaryCall == [pc |-> "none", split_point |-> 0, to_summarize |-> <<>>]

CmAwaitIdle == cm_suspended = NoSummaryCall

\* create_summary(provider) up to its await: split_point and to_summarize
\* are taken from the messages of this moment
BeginSummary ==
    /\ cm_suspended = NoSummaryCall
    /\ ~(Len(cm_messages) < SummaryMinMessages)
    /\ LET split_point == SplitPoint(Len(cm_messages))
       IN  cm_suspended' = [pc |-> "await", split_point |-> split_point,
                            to_summarize |-> SubSeq(cm_messages, 1, split_point)]
    /\ UNCHANGED cmVars

\* create_summary(provider) after its await, with the locals taken before it
EndSummary(outcome, summary_tokens) ==
    /\ cm_suspended.pc = "await"
    /\ cm_suspended' = NoSummaryCall
    /\ IF outcome = "provider_error"
       THEN /\ cm_summary_returned' = "None"
            /\ UNCHANGED <<cm_budget, cm_reserve_for_response, cm_messages, cm_summaries,
                           cm_total_tokens_used, cm_messages_truncated,
                           cm_summaries_created, cm_adds, cm_fit, cm_context, cm_warning>>
       ELSE LET to_summarize == cm_suspended.to_summarize
                summary == [original_messages |-> Len(to_summarize),
                            token_count |-> summary_tokens]
                tokens_freed == TokensOf(to_summarize)
            IN  /\ cm_messages' = Drop(cm_messages, cm_suspended.split_point)
                /\ cm_total_tokens_used' =
                       cm_total_tokens_used - tokens_freed + summary.token_count
                /\ cm_summaries' = Append(cm_summaries, summary)
                /\ cm_summaries_created' = cm_summaries_created + 1
                /\ cm_summary_returned' = "summary"
                /\ UNCHANGED <<cm_budget, cm_reserve_for_response, cm_messages_truncated,
                               cm_adds, cm_fit, cm_context, cm_warning>>

\* reset()
CmReset ==
    /\ cm_messages # <<>>
    /\ cm_messages' = <<>>
    /\ cm_summaries' = <<>>
    /\ cm_total_tokens_used' = 0
    /\ cm_messages_truncated' = 0
    /\ cm_summaries_created' = 0
    /\ UNCHANGED <<cm_budget, cm_reserve_for_response, cm_adds, cm_fit,
                   cm_summary_returned, cm_context, cm_warning, cm_suspended>>

\* messages, summaries and resets in any order, the calls that arrive while
\* a summary waits for its provider included
AwaitNext ==
    \/ \E n \in 1..2 :
          /\ Len(cm_messages) < MaxSummaryMessages
          /\ cm_adds < MaxSummaryMessages + KeepRecent
          /\ AddMessage(Content(n), 10)
          /\ UNCHANGED cm_suspended
    \/ Len(cm_summaries) < MaxSummaries /\ BeginSummary
    \/ \E outcome \in {"ok", "provider_error"} : EndSummary(outcome, 1)
    \/ CmReset

(* ====================== turn manager: every mode ======================== *)
MaxQueue == 2                 \* entries of the interrupt queue
MaxTurnsTaken == 2            \* turns_taken of a speaker
MaxQueueSpeakers == 2         \* personas of a manager whose queue is explored

VARIABLES
    tm_mode,                \* TurnManager.mode
    tm_moderator,           \* TurnManager.moderator, NoModerator for None
    tm_interrupt_queue,     \* TurnManager.interrupt_queue
    tm_interrupt_priority,  \* speakers[name].interrupt_priority
    tm_returned,            \* what the latest get_next_speakers call returned
    tm_unmarked,            \* speakers returned and not yet marked done
    tm_last_done            \* the speaker of the latest mark_speaker_done call

tmModeVars == <<tm_mode, tm_moderator, tm_interrupt_queue, tm_interrupt_priority,
                tm_returned, tm_unmarked, tm_last_done>>

MODERATOR == "moderator"
FREE_FORM == "free_form"
INTERRUPT == "interrupt"

TurnMode == {ROUND_ROBIN, MODERATOR, FREE_FORM, INTERRUPT, PARALLEL}

NoModerator == ""

\* the speaker names in the order of str comparison
NamesAscending == <<"curie", "darwin", "einstein", "euler", "feynman">>

NameOrder(name) == CHOOSE i \in DOMAIN NamesAscending : NamesAscending[i] = name

\* the personas in dict order: the order they were given to the constructor
SpeakerKeys == SelectSeq(SpeakerNames, LAMBDA name : name \in TmSpeakers)

\* self.interrupt_queue.append(speaker_name) whatever the priority
EnqueueAtTail(queue, speaker_name, priority) == Append(queue, speaker_name)

\* insert(0, speaker_name) with priority, append(speaker_name) without
Enqueue(queue, speaker_name, priority) ==
    IF priority THEN <<speaker_name>> \o queue ELSE Append(queue, speaker_name)

\* the speakers of scored after scored.sort(reverse=True): by score, then by
\* name, both descending
SortedDescending(names, score) ==
    LET n == Cardinality(names)
        above(a, b) == \/ score[a] > score[b]
                       \/ score[a] = score[b] /\ NameOrder(a) > NameOrder(b)
    IN  [k \in 1..n |->
            CHOOSE a \in names : Cardinality({b \in names : above(b, a)}) = k - 1]

CapAt(x, cap) == IF x < cap THEN x ELSE cap

FreeFormCap == 5

InterruptCap == 3

\* the score of _get_free_form_speakers
FreeFormScore(name) ==
    CapAt(tm_turn_count - tm_last_spoke_at_turn[name], FreeFormCap)
        + (IF tm_turns_taken[name] * Cardinality(ActiveSpeakers) < tm_turn_count
           THEN 1 ELSE 0)

\* the score of _get_interrupt_speakers
InterruptScore(name) ==
    tm_interrupt_priority[name]
        + CapAt(tm_turn_count - tm_last_spoke_at_turn[name], InterruptCap)

\* _get_free_form_speakers(user_message, max_speakers); swap is the outcome
\* of random.random() < 0.3
FreeFormSpeakers(max_speakers, swap) ==
    LET scored == SortedDescending(ActiveSpeakers,
                                   [name \in ActiveSpeakers |-> FreeFormScore(name)])
        swapped == IF Len(scored) > 1 /\ swap
                   THEN <<scored[2], scored[1]>> \o Drop(scored, 2)
                   ELSE scored
    IN  Take(swapped, max_speakers)

\* the fall-back of _get_moderator_speakers and _get_interrupt_speakers when
\* the queue is empty
ModeratorFallback ==
    LET non_mod_speakers == SelectSeq(tm_speaker_queue,
                                LAMBDA name : name # tm_moderator /\ tm_is_active[name])
    IN  IF /\ tm_moderator # NoModerator
           /\ tm_is_active[tm_moderator]
           /\ tm_last_spoke_at_turn[tm_moderator] < tm_turn_count
        THEN <<tm_moderator>>
        ELSE IF non_mod_speakers = <<>> THEN <<>>
        ELSE <<non_mod_speakers[(tm_current_index % Len(non_mod_speakers)) + 1]>>

InterruptFallback(max_speakers) ==
    Take(SortedDescending(ActiveSpeakers,
                          [name \in ActiveSpeakers |-> InterruptScore(name)]),
         max_speakers)

\* get_next_speakers(user_message, max_speakers): the speakers returned and
\* the cursor, round counter and queue left behind
NextSpeakers(max_speakers, swap) ==
    LET kept == [current_index |-> tm_current_index, turn_count |-> tm_turn_count,
                 interrupt_queue |-> tm_interrupt_queue]
        drained == [kept EXCEPT !.interrupt_queue = Drop(tm_interrupt_queue, max_speakers)]
    IN  CASE tm_mode = ROUND_ROBIN ->
                LET r == RoundRobinSpeakers(max_speakers)
                IN  [kept EXCEPT !.current_index = r.current_index,
                                 !.turn_count = r.turn_count]
                        @@ [speakers |-> r.speakers]
          [] tm_mode = MODERATOR ->
                IF tm_interrupt_queue # <<>>
                THEN drained @@ [speakers |-> Take(tm_interrupt_queue, max_speakers)]
                ELSE kept @@ [speakers |-> ModeratorFallback]
          [] tm_mode = FREE_FORM ->
                kept @@ [speakers |-> IF ActiveSpeakers = {} THEN <<>>
                                      ELSE FreeFormSpeakers(max_speakers, swap)]
          [] tm_mode = INTERRUPT ->
                IF tm_interrupt_queue # <<>>
                THEN drained @@ [speakers |-> Take(tm_interrupt_queue, max_speakers)]
                ELSE kept @@ [speakers |-> InterruptFallback(max_speakers)]
          [] OTHER -> kept @@ [speakers |-> SpeakerKeys]

\* TurnManager(mode, personas, moderator): the moderator is put first
TmModeInit(modes, max_personas) ==
    /\ tm_mode \in modes
    /\ \E n \in 1..max_personas :
          LET personas == SubSeq(SpeakerNames, 1, n)
          IN  /\ tm_moderator \in (IF tm_mode = MODERATOR THEN Range(personas) ELSE {})
                                      \cup {NoModerator}
              /\ tm_speaker_queue =
                     IF tm_moderator = NoModerator THEN personas
                     ELSE <<tm_moderator>>
                              \o SelectSeq(personas, LAMBDA name : name # tm_moderator)
    /\ tm_is_active = [name \in Range(tm_speaker_queue) |-> TRUE]
    /\ tm_current_index = 0
    /\ tm_turn_count = 0
    /\ tm_turns_taken = [name \in Range(tm_speaker_queue) |-> 0]
    /\ tm_last_spoke_at_turn = [name \in Range(tm_speaker_queue) |-> -1]
    /\ tm_selected = <<>>
    /\ tm_interrupt_queue = <<>>
    /\ tm_interrupt_priority = [name \in Range(tm_speaker_queue) |-> 0]
    /\ tm_returned = [calls |-> 0, speakers |-> <<>>]
    /\ tm_unmarked = {}
    /\ tm_last_done = NoModerator

TmModeIdle ==
    /\ tm_mode = ROUND_ROBIN
    /\ tm_moderator = NoModerator
    /\ tm_interrupt_queue = <<>>
    /\ tm_interrupt_priority = <<>>
    /\ tm_returned = [calls |-> 0, speakers |-> <<>>]
    /\ tm_unmarked = {}
    /\ tm_last_done = NoModerator

\* get_next_speakers(max_speakers=...) in the mode of the manager
GetNextSpeakersOfMode(max_speakers, swap) ==
    LET r == NextSpeakers(max_speakers, swap)
    IN  /\ r.turn_count <= MaxTurnCount
        /\ tm_current_index' = r.current_index
        /\ tm_turn_count' = r.turn_count
        /\ tm_interrupt_queue' = r.interrupt_queue
        /\ tm_returned' = [calls |-> 1, speakers |-> r.speakers]
        /\ tm_unmarked' = Range(r.speakers)
        /\ tm_selected' = <<>>
        /\ UNCHANGED <<tm_speaker_queue, tm_is_active, tm_turns_taken,
                       tm_last_spoke_at_turn, tm_mode, tm_moderator,
                       tm_interrupt_priority, tm_last_done>>

\* mark_speaker_done(speaker_name)
TmMarkSpeakerDone(speaker_name) ==
    /\ speaker_name \in TmSpeakers => tm_turns_taken[speaker_name] < MaxTurnsTaken
    /\ MarkSpeakerDone(speaker_name)
    /\ tm_unmarked' = tm_unmarked \ {speaker_name}
    /\ tm_last_done' = IF speaker_name \in TmSpeakers THEN speaker_name ELSE tm_last_done
    /\ UNCHANGED <<tm_speaker_queue, tm_is_active, tm_current_index, tm_turn_count,
                   tm_selected, tm_mode, tm_moderator, tm_interrupt_queue,
                   tm_interrupt_priority, tm_returned>>

\* add_to_queue(speaker_name, priority); unknown names are ignored
AddToQueue(speaker_name, priority) ==
    /\ Len(tm_interrupt_queue) < MaxQueue
    /\ tm_interrupt_queue' = IF speaker_name \in TmSpeakers
                             THEN Enqueue(tm_interrupt_queue, speaker_name, priority)
                             ELSE tm_interrupt_queue
    /\ UNCHANGED <<tmVars, tm_mode, tm_moderator, tm_interrupt_priority, tm_returned,
                   tm_unmarked, tm_last_done>>

\* set_interrupt_priority(speaker_name, priority)
SetInterruptPriority(speaker_name, priority) ==
    /\ tm_interrupt_priority' = IF speaker_name \in TmSpeakers
                                THEN [tm_interrupt_priority EXCEPT ![speaker_name] = priority]
                                ELSE tm_interrupt_priority
    /\ UNCHANGED <<tmVars, tm_mode, tm_moderator, tm_interrupt_queue, tm_returned,
                   tm_unmarked, tm_last_done>>

\* set_speaker_active on a manager of any mode
SetSpeakerActiveOfMode(speaker_name, active) ==
    /\ SetSpeakerActive(speaker_name, active)
    /\ UNCHANGED tmModeVars

\* reset() on a manager of any mode
TmResetOfMode ==
    /\ TmReset
    /\ tm_interrupt_queue' = <<>>
    /\ tm_last_done' = NoModerator
    /\ UNCHANGED <<tm_mode, tm_moderator, tm_interrupt_priority, tm_returned, tm_unmarked>>

\* calls on a manager of any mode, before anybody has spoken
ModesNext ==
    \/ \E m \in 1..MaxSpeakers : \E swap \in BOOLEAN : GetNextSpeakersOfMode(m, swap)
    \/ \E name \in Range(SpeakerNames) : \E priority \in BOOLEAN : AddToQueue(name, priority)
    \/ \E name \in Range(SpeakerNames) : \E a \in BOOLEAN : SetSpeakerActiveOfMode(name, a)
    \/ TmResetOfMode

\* a free-form discussion
FreeFormNext ==
    \/ \E m \in 1..MaxSpeakers : \E swap \in BOOLEAN : GetNextSpeakersOfMode(m, swap)
    \/ \E name \in Range(SpeakerNames) : TmMarkSpeakerDone(name)
    \/ \E name \in Range(SpeakerNames) : \E a \in BOOLEAN : SetSpeakerActiveOfMode(name, a)

\* the interrupt queue and the priorities of a manager that uses them
QueueNext ==
    \/ \E m \in 1..MaxSpeakers : \E swap \in BOOLEAN : GetNextSpeakersOfMode(m, swap)
    \/ \E name \in Range(SpeakerNames) : \E priority \in BOOLEAN : AddToQueue(name, priority)
    \/ \E name \in Range(SpeakerNames) : \E priority \in {0, 4} :
          SetInterruptPriority(name, priority)
    \/ TmResetOfMode

\* the orchestrator's sequential use in moderator mode: one speaker asked
\* for, and marked done before the next is asked for
ModeratorNext ==
    \/ \E swap \in BOOLEAN : tm_unmarked = {} /\ GetNextSpeakersOfMode(1, swap)
    \/ \E name \in tm_unmarked : TmMarkSpeakerDone(name)
    \/ \E name \in Range(SpeakerNames) : \E a \in BOOLEAN :
          tm_unmarked = {} /\ SetSpeakerActiveOfMode(name, a)

(* ===================== the polls of one session ========================= *)
MaxPolls == 3                 \* Poll rows of the session
MaxPollClock == 3             \* distinct creation times

VARIABLES
    sp_polls,           \* Poll rows of the session: [phase, created_at]
    sp_last_user_msg,   \* created_at of the latest user Message, NoMessage for none
    sp_clock            \* the time of the store

sessionPollVars == <<sp_polls, sp_last_user_msg, sp_clock>>

NoMessage == 0

SessionPollInit ==
    /\ sp_polls = <<>>
    /\ sp_last_user_msg = NoMessage
    /\ sp_clock = 1

\* Poll(session_id, poll_id, question, phase=SYNTHESIS) added and committed
NewPoll(created_at) == [phase |-> SYNTHESIS, created_at |-> created_at]

\* the time of an insert: the time of the previous one, or later
Now(passed) == IF passed THEN sp_clock + 1 ELSE sp_clock

\* POST /poll/start on a session in poll mode
StartPoll(passed) ==
    /\ Len(sp_polls) < MaxPolls
    /\ Now(passed) <= MaxPollClock
    /\ sp_clock' = Now(passed)
    /\ sp_polls' = Append(sp_polls, NewPoll(sp_clock'))
    /\ UNCHANGED sp_last_user_msg

\* process_user_message of the chat handler: the user's Message row is stored
SaveUserMessage(passed) ==
    /\ Now(passed) <= MaxPollClock
    /\ sp_clock' = Now(passed)
    /\ sp_last_user_msg' = sp_clock'
    /\ UNCHANGED sp_polls

\* get_pending_mcp_responses on a poll-mode session: a poll is created for
\* the last user message unless a poll as recent as the message exists
\* (scalar_one_or_none raises when it finds several)
AutoCreatePoll(passed) ==
    /\ Len(sp_polls) < MaxPolls
    /\ Now(passed) <= MaxPollClock
    /\ sp_last_user_msg # NoMessage
    /\ {i \in DOMAIN sp_polls : sp_polls[i].created_at >= sp_last_user_msg} = {}
    /\ sp_clock' = Now(passed)
    /\ sp_polls' = Append(sp_polls, NewPoll(sp_clock'))
    /\ UNCHANGED sp_last_user_msg

\* the submission that completes the phase of poll i moves it on
AdvancePoll(i) ==
    /\ sp_polls[i].phase # COMPLETED
    /\ sp_polls' = [sp_polls EXCEPT ![i].phase =
                       CASE @ = SYNTHESIS -> VOTE_ROUND_1
                         [] @ = VOTE_ROUND_1 -> VOTE_ROUND_2
                         [] OTHER -> COMPLETED]
    /\ UNCHANGED <<sp_last_user_msg, sp_clock>>

SessionPollNext ==
    \/ \E passed \in BOOLEAN : StartPoll(passed)
    \/ \E passed \in BOOLEAN : SaveUserMessage(passed)
    \/ \E passed \in BOOLEAN : AutoCreatePoll(passed)
    \/ \E i \in DOMAIN sp_polls : AdvancePoll(i)

(* ============================ specifications ============================ *)
vars == <<pollVars, dedupVars, irvVars, tmVars, orcVars, parseVars, analysisVars, cmVars, tmModeVars, cmAwaitVars, sessionPollVars>>

PollIdle == PollInit /\ session_personas = [p \in {"p1"} |-> TRUE]

\* the poll engine
Init == PollInit /\ DedupInit /\ IrvIdle /\ TmIdle /\ OrcIdle /\ ParseInit /\ AnalysisIdle /\ CmIdle /\ TmModeIdle /\ CmAwaitIdle /\ SessionPollInit

Next == PollNext /\ UNCHANGED <<dedupVars, irvVars, tmVars, orcVars, parseVars, analysisVars, cmVars, tmModeVars, cmAwaitVars, sessionPollVars>>

Spec == Init /\ [][Next]_vars

\* the poll engine, one request at a time
NextSeq == PollNextSequential /\ UNCHANGED <<dedupVars, irvVars, tmVars, orcVars, parseVars, analysisVars, cmVars, tmModeVars, cmAwaitVars, sessionPollVars>>

SpecSeq == Init /\ [][NextSeq]_vars

\* _deduplicate_options
InitDedup == DedupInit /\ PollIdle /\ IrvIdle /\ TmIdle /\ OrcIdle /\ ParseInit /\ AnalysisIdle /\ CmIdle /\ TmModeIdle /\ CmAwaitIdle /\ SessionPollInit

NextDedup == DedupNext /\ UNCHANGED <<pollVars, irvVars, tmVars, orcVars, parseVars, analysisVars, cmVars, tmModeVars, cmAwaitVars, sessionPollVars>>

SpecDedup == InitDedup /\ [][NextDedup]_vars

\* the instant-runoff replay
InitIRV == IrvInit /\ PollIdle /\ DedupInit /\ TmIdle /\ OrcIdle /\ ParseInit /\ AnalysisIdle /\ CmIdle /\ TmModeIdle /\ CmAwaitIdle /\ SessionPollInit

NextIRV == IrvNext /\ UNCHANGED <<pollVars, dedupVars, tmVars, orcVars, parseVars, analysisVars, cmVars, tmModeVars, cmAwaitVars, sessionPollVars>>

SpecIRV == InitIRV /\ [][NextIRV]_vars

\* the turn manager in round-robin mode
InitRR == TmInit /\ PollIdle /\ DedupInit /\ IrvIdle /\ OrcIdle /\ ParseInit /\ AnalysisIdle /\ CmIdle /\ TmModeIdle /\ CmAwaitIdle /\ SessionPollInit

NextRR == TmNext /\ UNCHANGED <<pollVars, dedupVars, irvVars, orcVars, parseVars, analysisVars, cmVars, tmModeVars, cmAwaitVars, sessionPollVars>>

SpecRR == InitRR /\ [][NextRR]_vars

\* the orchestrator of one session with its turn manager and its rows
InitOrch == OrcInit /\ PollIdle /\ DedupInit /\ IrvIdle /\ ParseInit /\ AnalysisIdle /\ CmIdle /\ TmModeIdle /\ CmAwaitIdle /\ SessionPollInit

NextOrch == OrcNext /\ UNCHANGED <<pollVars, dedupVars, irvVars, parseVars, analysisVars, cmVars, tmModeVars, cmAwaitVars, sessionPollVars>>

SpecOrch == InitOrch /\ [][NextOrch]_vars

\* provider-driven generation, one process_user_message call at a time: the
\* entry points, the generations of the call and their failures, with pause()
\* and stop() arriving at any time
GenNext ==
    \/ WsUserMessage(1)
    \/ WsProcess(1)
    \/ TriggerSessionProcessing(1)
    \/ McpSendMessage(1)
    \/ Dispatch(1)
    \/ \E name \in OrcPersonaSet : GenComplete(1, name)
    \/ \E name \in OrcPersonaSet : GenFail(1, name)
    \/ ProcReturn(1)
    \/ Pause
    \/ Stop

InitGen == InitOrch /\ ~orc_mcp_mode

NextGen == GenNext /\ orc_ops' <= MaxGenCalls /\ UNCHANGED <<pollVars, dedupVars, irvVars, parseVars, analysisVars, cmVars, tmModeVars, cmAwaitVars, sessionPollVars>>

SpecGen == InitGen /\ [][NextGen]_vars

\* _parse_vote_response on the replies of at most MaxReplyLines lines
InitParse == ParseInit /\ PollIdle /\ DedupInit /\ IrvIdle /\ TmIdle /\ OrcIdle /\ AnalysisIdle /\ CmIdle /\ TmModeIdle /\ CmAwaitIdle /\ SessionPollInit

NextParse == ParseNext /\ UNCHANGED <<pollVars, dedupVars, irvVars, tmVars, orcVars, analysisVars, cmVars, tmModeVars, cmAwaitVars, sessionPollVars>>

SpecParse == InitParse /\ [][NextParse]_vars

\* analyze_votes, one call per engine
InitAnalysis == AnalysisInit /\ PollIdle /\ DedupInit /\ IrvIdle /\ TmIdle /\ OrcIdle /\ ParseInit /\ CmIdle /\ TmModeIdle /\ CmAwaitIdle /\ SessionPollInit

NextAnalysis == AnalysisNext /\ UNCHANGED <<pollVars, dedupVars, irvVars, tmVars, orcVars, parseVars, cmVars, tmModeVars, cmAwaitVars, sessionPollVars>>

SpecAnalysis == InitAnalysis /\ [][NextAnalysis]_vars

\* agreement_history and get_agreement_trend of the engine the orchestrator
\* constructs
NextTrend == TrendNext /\ UNCHANGED <<pollVars, dedupVars, irvVars, tmVars, orcVars, parseVars, cmVars, tmModeVars, cmAwaitVars, sessionPollVars>>

InitTrend == InitAnalysis /\ ce_mode = MAJORITY

SpecTrend == InitTrend /\ [][NextTrend]_vars

\* add_message and the truncation it runs
InitCtx == CmInit({7, 10}, {2}) /\ PollIdle /\ DedupInit /\ IrvIdle /\ TmIdle /\ OrcIdle /\ ParseInit /\ AnalysisIdle /\ TmModeIdle /\ CmAwaitIdle /\ SessionPollInit

NextCtx == CtxNext /\ UNCHANGED <<pollVars, dedupVars, irvVars, tmVars, orcVars, parseVars, analysisVars, tmModeVars, cmAwaitVars, sessionPollVars>>

SpecCtx == InitCtx /\ [][NextCtx]_vars

\* create_summary and get_context_for_prompt
InitSummary == CmInit({14, 22}, {2}) /\ PollIdle /\ DedupInit /\ IrvIdle /\ TmIdle /\ OrcIdle /\ ParseInit /\ AnalysisIdle /\ TmModeIdle /\ CmAwaitIdle /\ SessionPollInit

NextSummary == SummaryNext /\ UNCHANGED <<pollVars, dedupVars, irvVars, tmVars, orcVars, parseVars, analysisVars, tmModeVars, cmAwaitVars, sessionPollVars>>

SpecSummary == InitSummary /\ [][NextSummary]_vars

\* get_budget_warning
InitWarning == CmInit(1..MaxBudget, {0}) /\ PollIdle /\ DedupInit /\ IrvIdle /\ TmIdle /\ OrcIdle /\ ParseInit /\ AnalysisIdle /\ TmModeIdle /\ CmAwaitIdle /\ SessionPollInit

NextWarning == WarningNext /\ UNCHANGED <<pollVars, dedupVars, irvVars, tmVars, orcVars, parseVars, analysisVars, tmModeVars, cmAwaitVars, sessionPollVars>>

SpecWarning == InitWarning /\ [][NextWarning]_vars

\* the turn manager in every mode
InitModes == TmModeInit(TurnMode, MaxSpeakers) /\ PollIdle /\ DedupInit /\ IrvIdle /\ OrcIdle /\ ParseInit /\ AnalysisIdle /\ CmIdle /\ CmAwaitIdle /\ SessionPollInit

NextModes == ModesNext /\ UNCHANGED <<pollVars, dedupVars, irvVars, orcVars, parseVars, analysisVars, cmVars, cmAwaitVars, sessionPollVars>>

SpecModes == InitModes /\ [][NextModes]_vars

\* the turn manager in moderator mode, used sequentially
InitModerator == TmModeInit({MODERATOR}, MaxSpeakers) /\ PollIdle /\ DedupInit /\ IrvIdle /\ OrcIdle /\ ParseInit /\ AnalysisIdle /\ CmIdle /\ CmAwaitIdle /\ SessionPollInit

NextModerator == ModeratorNext /\ UNCHANGED <<pollVars, dedupVars, irvVars, orcVars, parseVars, analysisVars, cmVars, cmAwaitVars, sessionPollVars>>

SpecModerator == InitModerator /\ [][NextModerator]_vars

\* the turn manager in free-form mode
InitFreeForm == TmModeInit({FREE_FORM}, MaxSpeakers) /\ PollIdle /\ DedupInit /\ IrvIdle /\ OrcIdle /\ ParseInit /\ AnalysisIdle /\ CmIdle /\ CmAwaitIdle /\ SessionPollInit

NextFreeForm == FreeFormNext /\ UNCHANGED <<pollVars, dedupVars, irvVars, orcVars, parseVars, analysisVars, cmVars, cmAwaitVars, sessionPollVars>>

SpecFreeForm == InitFreeForm /\ [][NextFreeForm]_vars

\* the turn manager in the modes that serve the interrupt queue
InitQueue == TmModeInit({MODERATOR, INTERRUPT}, MaxQueueSpeakers) /\ PollIdle /\ DedupInit /\ IrvIdle /\ OrcIdle /\ ParseInit /\ AnalysisIdle /\ CmIdle /\ CmAwaitIdle /\ SessionPollInit

NextQueue == QueueNext /\ UNCHANGED <<pollVars, dedupVars, irvVars, orcVars, parseVars, analysisVars, cmVars, cmAwaitVars, sessionPollVars>>

SpecQueue == InitQueue /\ [][NextQueue]_vars

\* the context manager with a summary that waits for its provider
InitAwait == CmInit({14}, {2}) /\ CmAwaitIdle /\ PollIdle /\ DedupInit /\ IrvIdle /\ TmIdle /\ OrcIdle /\ ParseInit /\ AnalysisIdle /\ TmModeIdle /\ SessionPollInit

NextAwait == AwaitNext /\ UNCHANGED <<pollVars, dedupVars, irvVars, tmVars, orcVars, parseVars, analysisVars, tmModeVars, sessionPollVars>>

SpecAwait == InitAwait /\ [][NextAwait]_vars

\* the Poll rows of one poll-mode session
InitSessionPolls == SessionPollInit /\ PollIdle /\ DedupInit /\ IrvIdle /\ TmIdle /\ OrcIdle /\ ParseInit /\ AnalysisIdle /\ CmIdle /\ TmModeIdle /\ CmAwaitIdle

NextSessionPolls == SessionPollNext /\ UNCHANGED <<pollVars, dedupVars, irvVars, tmVars, orcVars, parseVars, analysisVars, cmVars, tmModeVars, cmAwaitVars>>

SpecSessionPolls == InitSessionPolls /\ [][NextSessionPolls]_vars

(* ================================ claims ================================ *)
PhaseSuccessor ==
    {<<SYNTHESIS, VOTE_ROUND_1>>, <<VOTE_ROUND_1, VOTE_ROUND_2>>, <<VOTE_ROUND_2, COMPLETED>>}

\* C1: the stored phase of a poll only ever moves synthesis -> vote_round_1 ->
\* vote_round_2 -> completed, one step at a time: no step skips a phase, goes
\* back or leaves completed, whatever the interleaving of the submissions.
C1_PhaseStrictlyForward ==
    [][poll_phase' = poll_phase \/ <<poll_phase, poll_phase'>> \in PhaseSuccessor]_vars

\* the personas that have submitted for the phase the poll is in
SubmittedInPhase ==
    CASE poll_phase = SYNTHESIS -> SubmittedPersonas(poll_options)
      [] poll_phase = VOTE_ROUND_1 -> VotedPersonas(poll_votes, 1)
      [] poll_phase = VOTE_ROUND_2 -> VotedPersonas(poll_votes, 2)
      [] OTHER -> {}

NoRequestInFlight == \A h \in Slots : handlers[h].pc = "idle"

Round1Completes ==
    \E h \in Slots : handlers[h].pc = "process" /\ handlers'[h].pc = "advance"

\* the sum over the round-1 votes on option o of (n - rank + 1)
BordaSum(votes, o, n) ==
    LET rows == SelectSeq(votes, LAMBDA v : v.vote_round = 1 /\ v.option_id = o)
    IN  SumSeq([i \in DOMAIN rows |-> n - rows[i].rank + 1])

ActiveOptions(options) == {i \in DOMAIN options : options[i].is_active}

\* C3: when vote round 1 completes, every option's stored round_1_score is the
\* Borda sum of (numberOfOptions - rank + 1) over all ballots, the active options
\* are the five highest-scoring ones (all of them when there are at most five)
\* and no inactive option has a higher score than an active one.
C3_BordaTopFive ==
    [][Round1Completes =>
        LET n == Len(poll_options')
            active == ActiveOptions(poll_options')
        IN  /\ \A o \in DOMAIN poll_options' :
                  poll_options'[o].round_1_score = BordaSum(poll_votes, o, n)
            /\ Cardinality(active) = (IF n < TopN THEN n ELSE TopN)
            /\ \A i \in DOMAIN poll_options' : \A a \in active :
                  i \notin active =>
                      poll_options'[i].round_1_score <= poll_options'[a].round_1_score]_vars

\* the first step of the instant-runoff loop's pass changes the winner or the eliminated set
BallotsCounted ==
    {i \in DOMAIN irv_ballots : FirstChoice(irv_ballots[i], irv_eliminated) # 0}

\* ballots whose highest-ranked non-eliminated finalist is o
FirstChoiceVotes(o) ==
    Cardinality({i \in DOMAIN irv_ballots : FirstChoice(irv_ballots[i], irv_eliminated) = o})

\* C4: in each round of the instant-runoff replay an option with strictly more
\* than half of the counted ballots wins; otherwise exactly one option is
\* eliminated: one with the fewest first-choice votes among the finalists not
\* yet eliminated, the alphabetically smallest option text deciding ties.
C4_RunoffRound ==
    [][irv_pc = "loop" /\ IrvLoopCondition /\ BallotsCounted # {} =>
        LET remaining == Top5 \ irv_eliminated
            majority == {o \in remaining : 2 * FirstChoiceVotes(o) > Cardinality(BallotsCounted)}
            fewest == MinOf({FirstChoiceVotes(o) : o \in remaining})
            lowest == {o \in remaining : FirstChoiceVotes(o) = fewest}
        IN  IF majority # {}
            THEN irv_winner' \in majority /\ irv_eliminated' = irv_eliminated
            ELSE \E e \in lowest :
                    /\ irv_eliminated' = irv_eliminated \cup {e}
                    /\ \A o \in lowest : irv_text[e] <= irv_text[o]]_vars

\* C5: the instant-runoff replay ends after at most (finalists - 1) eliminations
\* and, for every number of finalists, with a winner whenever some round-1
\* ballot ranks a finalist.
C5_RunoffEndsWithWinner ==
    irv_pc = "done" =>
        /\ Cardinality(irv_eliminated) <= Cardinality(Top5) - 1
        /\ (\E i \in DOMAIN irv_ballots : irv_ballots[i] # <<>>) => irv_winner # NoWinner

\* the options _deduplicate_options keeps
Canonical(options) ==
    Range(DeduplicateOptions([i \in DOMAIN options |-> options[i].option_text]))

\* C6: after synthesis only the deduplicated options are offered for ranking and
\* scored: when vote round 1 completes, an option collapsed as a duplicate has
\* no round-1 vote, no score and is not a finalist, and every kept option's
\* score is the Borda sum taken with the number of deduplicated options.
C6_OnlyCanonicalOptionsScored ==
    [][Round1Completes =>
        LET kept == Canonical(poll_options)
        IN  /\ OptionsForRanking \subseteq kept
            /\ \A o \in DOMAIN poll_options' :
                 IF o \in kept
                 THEN poll_options'[o].round_1_score \in
                        {NoScore, BordaSum(poll_votes, o, Cardinality(kept))}
                 ELSE /\ \A v \in Range(poll_votes) : v.vote_round = 1 => v.option_id # o
                      /\ poll_options'[o].round_1_score = NoScore
                      /\ ~poll_options'[o].is_active]_vars

\* lower-cased whitespace tokens of a text
Tokens(t) == Words(LowerText(t))

\* |intersection| / |union| of the tokens is greater than 0.8
OverlapAbove80(a, b) ==
    5 * Cardinality(Tokens(a) \cap Tokens(b)) > 4 * Cardinality(Tokens(a) \cup Tokens(b))

\* C7: deduplication keeps the options in first-seen order and drops an option
\* exactly when its word overlap with an earlier kept option is greater than
\* 0.8; no two kept options overlap by more than 0.8.
C7_DedupFirstSeen ==
    dd_done =>
        LET kept == Range(dd_unique)
        IN  /\ kept \subseteq DOMAIN dd_options
            /\ \A i, j \in DOMAIN dd_unique : i < j => dd_unique[i] < dd_unique[j]
            /\ \A k \in DOMAIN dd_options :
                 k \notin kept <=>
                    \E j \in kept : j < k /\ OverlapAbove80(dd_options[j], dd_options[k])
            /\ \A i, j \in kept : i # j => ~OverlapAbove80(dd_options[i], dd_options[j])

\* an option was dropped, and two kept options overlap by exactly 0.8
C7_Witness ==
    /\ dd_done
    /\ Len(dd_unique) < Len(dd_options)
    /\ \E i, j \in Range(dd_unique) :
         /\ i # j
         /\ Tokens(dd_options[i]) \cap Tokens(dd_options[j]) # {}
         /\ 5 * Cardinality(Tokens(dd_options[i]) \cap Tokens(dd_options[j]))
              = 4 * Cardinality(Tokens(dd_options[i]) \cup Tokens(dd_options[j]))

\* C8: vote round 1 completes only when every participant has ranked all the
\* options, and vote round 2 only when every participant has voted on every
\* finalist: a ballot that covers only some of them does not let the phase advance.
C8_CompleteBallotsOnly ==
    [][/\ (poll_phase = VOTE_ROUND_1 /\ poll_phase' = VOTE_ROUND_2) =>
            \A p \in AllPersonas : \A o \in Canonical(poll_options) :
                \E v \in Range(poll_votes) :
                    v.vote_round = 1 /\ v.persona_name = p /\ v.option_id = o
       /\ (poll_phase = VOTE_ROUND_2 /\ poll_phase' = COMPLETED) =>
            \A p \in AllPersonas : \A o \in ActiveOptions(poll_options) :
                \E v \in Range(poll_votes) :
                    v.vote_round = 2 /\ v.persona_name = p /\ v.option_id = o]_vars

\* C9: a submission under a name that is not a participant of the session is
\* rejected: no option and no vote is stored under such a name.
C9_OutsiderRejected ==
    /\ \A i \in DOMAIN poll_options : poll_options[i].proposed_by \in AllPersonas
    /\ \A v \in Range(poll_votes) : v.persona_name \in AllPersonas

\* C10: in round-robin mode with every participant active, any N consecutive
\* single-speaker selections return each of the N participants exactly once, and
\* every cycle returns them in the same order.
C10_RoundRobinCycle ==
    LET n == Len(tm_speaker_queue)
    IN  ActiveSpeakers = TmSpeakers =>
            /\ \A i \in DOMAIN tm_selected : Len(tm_selected[i]) = 1
            /\ \A i \in DOMAIN tm_selected :
                 i + n - 1 <= Len(tm_selected) =>
                    {tm_selected[j][1] : j \in i..(i + n - 1)} = TmSpeakers
            /\ \A i \in DOMAIN tm_selected :
                 i + n <= Len(tm_selected) => tm_selected[i + n] = tm_selected[i]

\* two full cycles of three active participants were selected, the first after a wrap
C10_Witness ==
    /\ Len(tm_speaker_queue) >= 3
    /\ ActiveSpeakers = TmSpeakers
    /\ Len(tm_selected) = 2 * Len(tm_speaker_queue)
    /\ tm_selected[1] # <<tm_speaker_queue[1]>>

\* C11: in round-robin mode, whenever at least one participant is active, every
\* single-speaker selection returns exactly one participant and that participant
\* is active: an inactive participant under the cursor is skipped, not returned
\* and not allowed to use up the selection.
C11_RoundRobinSkipsInactive ==
    ActiveSpeakers # {} =>
        \A i \in DOMAIN tm_selected :
            /\ Len(tm_selected[i]) = 1
            /\ tm_selected[i][1] \in ActiveSpeakers

\* C12: once stop() has moved the orchestrator to the stopped state, no later
\* operation changes its state again.
C12_StoppedIsTerminal ==
    [][orc_state = STOPPED => orc_state' = STOPPED]_vars

\* a generation starts in this step
GenerationStarts ==
    \E h \in ProcSlots : \E name \in OrcPersonaSet :
        orc_procs[h].gen[name] # "in_flight" /\ orc_procs'[h].gen[name] = "in_flight"

\* C13: after pause() and until resume() is called, no generation is started
\* for a participant, and pause() itself leaves the generations that are in
\* flight alone.
C13_PausedStartsNothing ==
    [][/\ orc_pause_called => ~GenerationStarts
       /\ Pause => orc_procs' = orc_procs]_vars

\* C14: a persona awaiting an external response stays pending until
\* receive_mcp_response is called for it or the session is stopped, and after
\* either of these it is no longer reported as pending.
C14_PendingUntilResponseOrStop ==
    [][/\ \A name \in OrcPersonaSet :
            (name \in PendingMcp /\ name \notin PendingMcp') =>
                (ReceiveMcpResponse(name) \/ Stop)
       /\ \A name \in OrcPersonaSet :
            ReceiveMcpResponse(name) => name \notin PendingMcp'
       /\ Stop => PendingMcp' = {}]_vars

\* C15: request_vote puts the orchestrator in the voting state when
\* collection starts, and when the call has ended, normally or by a failure,
\* the orchestrator is not left in the voting state.
C15_VotingEnds ==
    [][/\ RequestVote => orc_state' = VOTING
       /\ (orc_vote.pc # "idle" /\ orc_vote'.pc = "idle") => orc_state' # VOTING]_vars

\* stored assistant messages of a persona for a turn
HasResponse(messages, persona_name, turn_number) ==
    \E i \in DOMAIN messages :
        messages[i] = NewMessage("assistant", persona_name, turn_number)

\* C16: when the provider fails for one participant, an error event naming it
\* is published, no message is stored and no turn-manager bookkeeping is
\* recorded for it, the orchestrator state is unchanged and the other
\* participants of the batch are unaffected: when a parallel batch returns,
\* every participant whose provider did not fail has stored its response.
C16_ProviderFailureContained ==
    [][\A h \in ProcSlots :
        /\ \A name \in OrcPersonaSet :
            (orc_procs[h].gen[name] = "in_flight" /\ orc_procs'[h].gen[name] = "failed") =>
                /\ name \in orc_error_events'
                /\ db_messages' = db_messages
                /\ tm_turns_taken' = tm_turns_taken
                /\ tm_last_spoke_at_turn' = tm_last_spoke_at_turn
                /\ orc_state' = orc_state
                /\ \A other \in OrcPersonaSet \ {name} :
                        orc_procs'[h].gen[other] = orc_procs[h].gen[other]
        /\ (orc_turn_mode = PARALLEL /\ orc_procs[h].pc = "generating"
                /\ orc_procs'[h].pc = "idle") =>
                \A name \in OrcPersonaSet :
                    \/ orc_procs[h].gen[name] = "failed"
                    \/ /\ orc_procs[h].gen[name] = "done"
                       /\ HasResponse(db_messages, name, orc_procs[h].turn_number)]_vars

\* a parallel batch in which the provider failed for one participant and the
\* other one has stored its response
C16_Witness ==
    /\ orc_turn_mode = PARALLEL
    /\ \E h \in DOMAIN orc_procs : \E name, other \in OrcPersonaSet :
        /\ orc_procs[h].pc = "generating"
        /\ orc_procs[h].gen[name] = "failed"
        /\ orc_procs[h].gen[other] = "done"
        /\ name \in orc_error_events
        /\ ~HasResponse(db_messages, name, orc_procs[h].turn_number)
        /\ HasResponse(db_messages, other, orc_procs[h].turn_number)
        /\ tm_turns_taken[name] = 0

\* C17: in the sequential turn modes at most one generation is in flight at
\* any time, whatever the interleaving of the inputs processed for the session.
C17_OneGenerationInFlight ==
    orc_turn_mode # PARALLEL => Cardinality(InFlight) <= 1

\* C18: in creation order, the turn numbers of the stored messages never decrease.
C18_TurnNumbersNonDecreasing ==
    \A i, j \in DOMAIN db_messages :
        i < j => db_messages[i].turn_number <= db_messages[j].turn_number

\* C19: every committed change of the session row increases its version by
\* one: the version minus its initial value is the number of changes.
C19_VersionCountsMutations ==
    db_session.version - InitialVersion = db_mutations

\* C20: every vote in the list returned by collect_votes, abstentions after a
\* provider failure included, has a stored Vote row with the same participant,
\* value and proposal id.
C20_EveryVotePersisted ==
    orc_vote.pc = "analyze" =>
        \A i \in DOMAIN orc_vote.votes :
            \E k \in DOMAIN db_votes :
                db_votes[k] = NewVoteRow(orc_vote.proposal_id, orc_vote.votes[i])

\* the text written after the first VOTE: marker, up to the end of its line
WrittenVote(response) == Strip(FirstLine(SplitSecond(VOTE_MARKER, UpperText(response))))

HasVoteMarker(response) == Contains(VOTE_MARKER, UpperText(response))

HasAnyMarker(response) ==
    HasVoteMarker(response) \/ Contains(CONFIDENCE_MARKER, UpperText(response))

HasVoteKeyword(response) ==
    \E kw \in {KW_AGREE, KW_DISAGREE, KW_YES, KW_NO} : Contains(kw, UpperText(response))

\* C21: a parsed reply with a VOTE: marker yields the value written after the
\* marker on that line (AGREE -> agree, DISAGREE -> disagree, anything else ->
\* abstain), and a reply with no marker and no agreement/disagreement keyword
\* yields abstain with confidence 0.5.
C21_ParsedVoteIsWrittenVote ==
    ce_parsed # NotParsed =>
        /\ HasVoteMarker(ce_response) =>
               ce_parsed.vote = (IF WrittenVote(ce_response) = KW_AGREE THEN AGREE
                                 ELSE IF WrittenVote(ce_response) = KW_DISAGREE THEN DISAGREE
                                 ELSE ABSTAIN)
        /\ (~HasAnyMarker(ce_response) /\ ~HasVoteKeyword(ce_response)) =>
               (ce_parsed.vote = ABSTAIN /\ ce_parsed.confidence = DefaultConfidence)

\* the votes of the latest call counted independently of the analysis
Agrees == Cardinality({i \in DOMAIN ce_votes : ce_votes[i].vote = AGREE})

Disagrees == Cardinality({i \in DOMAIN ce_votes : ce_votes[i].vote = DISAGREE})

Returned == ce_result # NoResult /\ ce_result # Raised

MajoritySide ==
    IF Agrees > Disagrees THEN AGREE ELSE IF Disagrees > Agrees THEN DISAGREE ELSE "none"

OppositeVoters ==
    {ce_votes[i].persona_name : i \in {j \in DOMAIN ce_votes :
        \/ MajoritySide = AGREE /\ ce_votes[j].vote = DISAGREE
        \/ MajoritySide = DISAGREE /\ ce_votes[j].vote = AGREE}}

C23_SupermajorityIsTwoThirds ==
    (ce_mode = SUPERMAJORITY /\ ce_votes # <<>> /\ Returned) =>
        (ce_result.consensus_reached <=>
            /\ Agrees + Disagrees > 0
            /\ \/ 3 * Agrees >= 2 * (Agrees + Disagrees)
               \/ 3 * Disagrees >= 2 * (Agrees + Disagrees))

\* C24: a returned analysis has recorded one disagreement Insight naming
\* exactly the dissenters when the dissenter list is non-empty and consensus
\* was not reached, and no Insight in every other case.
C24_InsightIffUnresolvedDissent ==
    Returned =>
        IF ce_votes # <<>> /\ Len(ce_result.dissenting_personas) > 0
              /\ ~ce_result.consensus_reached
        THEN db_insights = <<ce_result.dissenting_personas>>
        ELSE db_insights = <<>>

\* a supermajority engine, two agree and one disagrees: the Insight names the
\* dissenter
C24_Witness ==
    /\ ce_mode = SUPERMAJORITY
    /\ Returned
    /\ Agrees = 2 /\ Disagrees = 1
    /\ ~ce_result.consensus_reached
    /\ Len(db_insights) = 1
    /\ db_insights[1] = ce_result.dissenting_personas
    /\ Len(db_insights[1]) = 1

\* the classification the last three scores call for
LastThreeTrend(history) ==
    LET a == history[Len(history) - 2]
        b == history[Len(history) - 1]
        c == history[Len(history)]
    IN  IF FracLeq(a, b) /\ FracLeq(b, c) THEN "increasing"
        ELSE IF FracLeq(b, a) /\ FracLeq(c, b) THEN "decreasing"
        ELSE "stable"

\* C25: get_agreement_trend reports insufficient_data while fewer than 3
\* scores are recorded, and otherwise the classification of the last three
\* scores alone: increasing if they never decrease, else decreasing if they
\* never increase, else stable.
C25_TrendFromLastThree ==
    [][GetAgreementTrend =>
          ce_trend' = IF Len(agreement_history) < 3 THEN "insufficient_data"
                      ELSE LastThreeTrend(agreement_history)]_vars

\* the positions of list outside the set removed, in their order
Without(list, removed) ==
    LET kept == SortedBy(SetToSeq(DOMAIN list \ removed), [i \in DOMAIN list |-> i])
    IN  [k \in DOMAIN kept |-> list[kept[k]]]

\* the positions older than the latest five, least important first and, among
\* equals, oldest first
RemovalOrder(list) ==
    LET older == 1..(Len(list) - KeepRecent)
        before(i, j) == \/ list[i].importance < list[j].importance
                        \/ list[i].importance = list[j].importance /\ i < j
    IN  [k \in 1..Cardinality(older) |->
            CHOOSE i \in older : Cardinality({j \in older : before(j, i)}) = k - 1]

\* the shortest prefix of the removal order freeing at least excess tokens,
\* the whole order when it frees less
RemovedPositions(list, excess) ==
    LET order == RemovalOrder(list)
        freed(p) == SumSeq([k \in 1..p |-> list[order[k]].token_count])
        enough == {p \in 0..Len(order) : freed(p) >= excess}
        p == IF enough = {} THEN Len(order) ELSE MinOfSet(enough)
    IN  {order[k] : k \in 1..p}

\* C26: when add_message pushes usage above budget - reserve_for_response,
\* the messages removed are exactly the shortest prefix, in ascending
\* importance order with ties oldest first, of the messages older than the
\* latest five whose tokens reach the excess (all of them when they do not);
\* the latest five stay, in their order.
C26_TruncationRemovesLeastImportantPrefix ==
    [][\A n \in 1..2 : \A importance \in Importances :
          LET appended == Append(cm_messages, ContextMessage(Content(n), importance))
              excess == cm_total_tokens_used + n - (cm_budget - cm_reserve_for_response)
          IN  (AddMessage(Content(n), importance) /\ excess > 0) =>
                  cm_messages' = Without(appended, RemovedPositions(appended, excess))]_vars

\* a truncation that removed some of the older messages and left others
C26_Witness ==
    /\ cm_fit = "False"
    /\ cm_messages_truncated >= 1
    /\ Len(cm_messages) > KeepRecent
    /\ cm_summaries = <<>>

\* C27: after every add_message call the tracked token usage is at most
\* budget - reserve_for_response.
C27_UsageWithinBudget ==
    cm_fit # "unset" => cm_total_tokens_used <= cm_budget - cm_reserve_for_response

\* C28: create_summary changes nothing and returns no summary while fewer
\* than 10 messages are retained or when the provider call fails; with n >= 10
\* messages and a successful call it removes exactly the oldest floor(n/2)
\* messages, appends one summary and changes the usage by summary tokens minus
\* the tokens of the removed messages.
C28_SummaryReplacesOldestHalf ==
    [][\A summary_tokens \in {1, 12} :
          LET n == Len(cm_messages)
              removed == SubSeq(cm_messages, 1, n \div 2)
              untouched == UNCHANGED <<cm_messages, cm_summaries, cm_total_tokens_used>>
          IN  /\ CreateSummary("provider_error", summary_tokens) =>
                    (untouched /\ cm_summary_returned' = "None")
              /\ CreateSummary("ok", summary_tokens) =>
                    IF n < 10
                    THEN untouched /\ cm_summary_returned' = "None"
                    ELSE /\ cm_messages' = SubSeq(cm_messages, n \div 2 + 1, n)
                         /\ Len(cm_summaries') = Len(cm_summaries) + 1
                         /\ Front(cm_summaries') = cm_summaries
                         /\ Last(cm_summaries').token_count = summary_tokens
                         /\ cm_total_tokens_used' - cm_total_tokens_used
                                = summary_tokens - TokensOf(removed)
                         /\ cm_summary_returned' = "summary"]_vars

\* a summary of the oldest five of eleven messages
C28_Witness ==
    /\ cm_summary_returned = "summary"
    /\ Len(cm_summaries) = 1
    /\ cm_summaries[1].original_messages = 5
    /\ Len(cm_messages) = 6

C30_WarningLevels ==
    [][GetBudgetWarning =>
          cm_warning' = IF 10 * cm_total_tokens_used >= 9 * cm_budget THEN "CRITICAL"
                        ELSE IF 4 * cm_total_tokens_used >= 3 * cm_budget THEN "WARNING"
                        ELSE "None"]_vars

\* C36: a receive_mcp_response for a persona that is not currently pending
\* (never marked, or already answered) leaves the turn manager's bookkeeping
\* (turns_taken, last_spoke_at_turn) untouched, so each awaiting mark accepts
\* at most one response.
C36_OnlyPendingResponseAccepted ==
    [][\A name \in OrcPersonaSet :
          (ReceiveMcpResponse(name) /\ name \notin PendingMcp) =>
              UNCHANGED <<tm_turns_taken, tm_last_spoke_at_turn>>]_vars

\* C31: in parallel mode get_next_speakers returns exactly the active
\* speakers, each once, whatever max_speakers is; a deactivated speaker is
\* not returned
C31_ParallelReturnsActive ==
    [][\A m \in 1..MaxSpeakers : \A swap \in BOOLEAN :
          (GetNextSpeakersOfMode(m, swap) /\ tm_mode = PARALLEL) =>
              /\ Range(tm_returned'.speakers) = ActiveSpeakers
              /\ Len(tm_returned'.speakers) = Cardinality(ActiveSpeakers)]_vars

\* C32: in every mode and with every content of the interrupt queue,
\* get_next_speakers returns the empty list when no speaker is active
C32_NobodyActiveNobodyReturned ==
    [][\A m \in 1..MaxSpeakers : \A swap \in BOOLEAN :
          (GetNextSpeakersOfMode(m, swap) /\ ActiveSpeakers = {}) =>
              tm_returned'.speakers = <<>>]_vars

\* the active speakers other than the moderator
ActiveNonModerators == ActiveSpeakers \ {tm_moderator}

\* C33: in moderator mode with an empty queue, once the moderator has spoken
\* in the round, a call that follows the turn of a non-moderator does not
\* return that same speaker again while another non-moderator is active
C33_ModeratorModeRotates ==
    [][\A swap \in BOOLEAN : \A name \in ActiveNonModerators :
          ( /\ GetNextSpeakersOfMode(1, swap)
            /\ tm_mode = MODERATOR
            /\ tm_interrupt_queue = <<>>
            /\ tm_moderator # NoModerator
            /\ tm_last_spoke_at_turn[tm_moderator] = tm_turn_count
            /\ tm_returned.speakers = <<name>>
            /\ tm_last_done = name
            /\ tm_unmarked = {}
            /\ Cardinality(ActiveNonModerators) > 1 ) =>
                tm_returned'.speakers # <<name>>]_vars

\* min(max_speakers, len(queue))
QueueShare(max_speakers) ==
    IF max_speakers < Len(tm_interrupt_queue) THEN max_speakers ELSE Len(tm_interrupt_queue)

BelowAverage(name) ==
    tm_turns_taken[name] * Cardinality(ActiveSpeakers)
        < SumSeq([i \in 1..Len(SetToSeq(ActiveSpeakers)) |->
                      tm_turns_taken[SetToSeq(ActiveSpeakers)[i]]])

\* C35: in free-form mode get_next_speakers(max_speakers=1) returns one of
\* the two highest-scoring active speakers: never the speaker who spoke
\* last and is not below the average while two other active speakers are
\* below it
C35_FreeFormReturnsTopTwo ==
    [][\A swap \in BOOLEAN :
          ( /\ GetNextSpeakersOfMode(1, swap)
            /\ tm_mode = FREE_FORM
            /\ tm_last_done \in ActiveSpeakers
            /\ ~BelowAverage(tm_last_done)
            /\ Cardinality({name \in ActiveSpeakers \ {tm_last_done} :
                               BelowAverage(name)}) >= 2 ) =>
                tm_returned'.speakers # <<tm_last_done>>]_vars

\* C38: the list returned by collect_votes holds exactly one vote per
\* persona, in the order of the personas, whatever failed for a persona
C38_OneVotePerPersona ==
    orc_vote.pc = "analyze" =>
        /\ Len(orc_vote.votes) = Len(OrcPersonas)
        /\ \A i \in DOMAIN orc_vote.votes :
               i <= Len(OrcPersonas) => orc_vote.votes[i].persona_name = OrcPersonas[i]

\* C37: after any sequence of add_message, create_summary and reset, the
\* add_message calls made while create_summary waits for its provider
\* included, total_tokens_used is the token count of the retained messages
\* plus that of the stored summaries, and is not negative
C37_UsageIsSumOfParts ==
    /\ cm_total_tokens_used = TokensOf(cm_messages) + TokensOf(cm_summaries)
    /\ cm_total_tokens_used >= 0

\* the most points a single round-1 vote of persona gives to option o
BestPoints(votes, persona, o, n) ==
    LET mine == {v \in Range(VotesOfRound(votes, 1)) :
                    v.persona_name = persona /\ v.option_id = o}
    IN  IF mine = {} THEN 0
        ELSE CHOOSE pts \in {BordaPoints(n, RankOrDefault(v.rank)) : v \in mine} :
                \A v \in mine : BordaPoints(n, RankOrDefault(v.rank)) <= pts

\* what the option gets when every persona counts with one ballot
OneBallotEach(votes, o, n) ==
    LET personas == SetToSeq(VotedPersonas(votes, 1))
    IN  SumSeq([i \in DOMAIN personas |-> BestPoints(votes, personas[i], o, n)])

\* C39: every persona counts with at most one ballot in the tally of a
\* round: when vote round 1 completes with votes of session personas only,
\* no option's stored score exceeds what one ballot per persona gives it,
\* also when a persona submitted twice
C39_OneBallotPerPersona ==
    [][(Round1Completes /\ VotedPersonas(poll_votes, 1) \subseteq AllPersonas) =>
          \A o \in DOMAIN poll_options' :
              poll_options'[o].round_1_score
                  <= OneBallotEach(poll_votes, o, Len(poll_options'))]_vars

\* the polls of the session that are not completed
OpenPolls == {i \in DOMAIN sp_polls : sp_polls[i].phase # COMPLETED}

\* C40: a session never has more than one poll that is not completed,
\* whatever start-poll requests, automatic creations and submissions occur
C40_AtMostOneOpenPoll == Cardinality(OpenPolls) <= 1

====
